---- MODULE Spec2Model ----
(***************************************************************************)
(* Model of the Prometheus Pushgateway interface library                   *)
(* (lib/charms/prometheus_pushgateway_k8s/v0/pushgateway.py).              *)
(*                                                                         *)
(* Text is modelled as a sequence of Unicode code points, bytes as a       *)
(* sequence of numbers below 256.  A Python value is a record whose field  *)
(* ty is the name of its Python type.                                      *)
(***************************************************************************)
EXTENDS Integers, Sequences, FiniteSets, TLC

(***************************************************************************)
(* Bounds of the model.                                                    *)
(***************************************************************************)
\* number of relation ids Juju hands out on the requirer's endpoint
MaxRelations == 1
\* number of relation ids Juju hands out on the provider's endpoint
MaxProviderRelations == 2
\* number of relations established at once on the requirer's endpoint, where
\* the requirer's answers with several relations are examined
MaxEndpointRelations == 2

(***************************************************************************)
(* Text literals (code points).                                            *)
(***************************************************************************)
\* "push-endpoint"
RELATION_KEY == <<112, 117, 115, 104, 45, 101, 110, 100, 112, 111, 105, 110, 116>>
\* "url"
TxtUrl == <<117, 114, 108>>
\* "null", "true", "false", "NaN", "Infinity"
TxtNull == <<110, 117, 108, 108>>
TxtTrue == <<116, 114, 117, 101>>
TxtFalse == <<102, 97, 108, 115, 101>>
TxtNaN == <<78, 97, 78>>
TxtInfinity == <<73, 110, 102, 105, 110, 105, 116, 121>>
\* "metrics/job/"
TxtMetricsJob == <<109, 101, 116, 114, 105, 99, 115, 47, 106, 111, 98, 47>>
\* "default"
TxtDefault == <<100, 101, 102, 97, 117, 108, 116>>
\* "http:", "https:"
TxtHttp == <<104, 116, 116, 112, 58>>
TxtHttps == <<104, 116, 116, 112, 115, 58>>

(***************************************************************************)
(* Python values.                                                          *)
(***************************************************************************)
PyNone == [ty |-> "NoneType"]
PyStr(s) == [ty |-> "str", s |-> s]
PyInt(n) == [ty |-> "int", n |-> n]
PyBool(b) == [ty |-> "bool", b |-> b]
\* a finite float is sign * mant * 10^(-scale); special is "nan" or "inf"
PyFloat(neg, mant, scale) ==
    [ty |-> "float", special |-> "", neg |-> neg, mant |-> mant, scale |-> scale]
PyFloatSpecial(neg, special) ==
    [ty |-> "float", special |-> special, neg |-> neg, mant |-> 0, scale |-> 0]
RECURSIVE MakeFloat(_, _, _)
\* the float sign * mant * 10^(-scale) in lowest terms
MakeFloat(neg, mant, scale) ==
    IF scale < 0 THEN MakeFloat(neg, mant * 10, scale + 1)
    ELSE IF scale > 0 /\ mant % 10 = 0 THEN MakeFloat(neg, mant \div 10, scale - 1)
    ELSE PyFloat(neg, mant, scale)
PyComplex(re, im) == [ty |-> "complex", re |-> re, im |-> im]
\* items is a sequence of [k, v]; a later item with the same key replaces
\* an earlier one, as a dict built by successive assignments
PyDict(items) == [ty |-> "dict", items |-> items]
PyList(elems) == [ty |-> "list", elems |-> elems]

\* values that isinstance(v, str) / isinstance(v, (float, int)) accept;
\* bool is a subclass of int
IsInstanceStr(v) == v.ty = "str"
IsInstanceFloatInt(v) == v.ty \in {"float", "int", "bool"}

RECURSIVE Pow10(_)
Pow10(k) == IF k <= 0 THEN 1 ELSE 10 * Pow10(k - 1)

RECURSIVE NatDigits(_)
\* decimal digits of a natural number, as code points
NatDigits(n) == IF n < 10 THEN <<48 + n>>
                ELSE Append(NatDigits(n \div 10), 48 + (n % 10))

RECURSIVE PadDigits(_, _)
\* decimal digits of n, left-padded with "0" to w places
PadDigits(n, w) == IF w = 0 THEN <<>>
                   ELSE Append(PadDigits(n \div 10, w - 1), 48 + (n % 10))

\* str(v): the text an f-string replacement field {v} produces
Format(v) ==
    CASE v.ty = "str" -> v.s
      [] v.ty = "int" -> IF v.n < 0 THEN <<45>> \o NatDigits(0 - v.n) ELSE NatDigits(v.n)
      [] v.ty = "bool" -> IF v.b THEN <<84, 114, 117, 101>> ELSE <<70, 97, 108, 115, 101>>
      [] v.ty = "float" ->
            (IF v.neg THEN <<45>> ELSE <<>>) \o
            (IF v.special = "nan" THEN <<110, 97, 110>>
             ELSE IF v.special = "inf" THEN <<105, 110, 102>>
             ELSE NatDigits(v.mant \div Pow10(v.scale)) \o <<46>> \o
                  (IF v.scale = 0 THEN <<48>>
                   ELSE PadDigits(v.mant % Pow10(v.scale), v.scale)))
      [] v.ty = "NoneType" -> <<78, 111, 110, 101>>
      \* the repr of a complex number or a container starts with a bracket;
      \* only that it is not a URL matters here
      [] OTHER -> <<40, 41>>

\* str.isascii()
isascii(s) == \A i \in 1..Len(s) : s[i] < 128

\* str.encode("ascii"): one byte per code point; the caller guarantees isascii
EncodeAscii(s) == [i \in 1..Len(s) |-> s[i] % 256]

StartsWith(s, p) == Len(s) >= Len(p) /\ SubSeq(s, 1, Len(p)) = p
\* s[i:i+Len(p)] == p  (i is 1-based)
MatchAt(s, i, p) == i + Len(p) - 1 <= Len(s) /\ SubSeq(s, i, i + Len(p) - 1) = p


(***************************************************************************)
(* json.loads, as the standard decoder scans a str: the value grammar,     *)
(* whitespace, string escapes, and the "Extra data" check.  Positions are  *)
(* 1-based.  A scan returns [ok, v, n]: n is the position after the value. *)
(***************************************************************************)
JsonFail == [ok |-> FALSE, v |-> PyNone, n |-> 0]
JsonOk(v, n) == [ok |-> TRUE, v |-> v, n |-> n]

WHITESPACE == {32, 9, 10, 13}
IsDigit(c) == c \in 48..57
IsHex(c) == c \in 48..57 \/ c \in 97..102 \/ c \in 65..70
HexVal(c) == IF c \in 48..57 THEN c - 48 ELSE IF c \in 97..102 THEN c - 87 ELSE c - 55

CharAt(s, i) == IF i >= 1 /\ i <= Len(s) THEN s[i] ELSE -1

RECURSIVE SkipWS(_, _)
SkipWS(s, i) == IF CharAt(s, i) \in WHITESPACE THEN SkipWS(s, i + 1) ELSE i

RECURSIVE DigitsEnd(_, _)
\* position after the run of digits that starts at i
DigitsEnd(s, i) == IF IsDigit(CharAt(s, i)) THEN DigitsEnd(s, i + 1) ELSE i

RECURSIVE DigitsVal(_, _, _)
\* value of the digits s[a..b-1]
DigitsVal(s, a, b) == IF b <= a THEN 0
                      ELSE 10 * DigitsVal(s, a, b - 1) + (s[b - 1] - 48)

\* the four hex digits s[i..i+3] of a \uXXXX escape
HasHex4(s, i) == i + 3 <= Len(s) /\ \A j \in i..(i + 3) : IsHex(s[j])
Hex4(s, i) == 4096 * HexVal(s[i]) + 256 * HexVal(s[i + 1])
              + 16 * HexVal(s[i + 2]) + HexVal(s[i + 3])

\* the one-character escapes: \" \\ \/ \b \f \n \r \t
BACKSLASH == {34, 92, 47, 98, 102, 110, 114, 116}
Unescape(e) == CASE e = 98 -> 8 [] e = 102 -> 12 [] e = 110 -> 10
                 [] e = 114 -> 13 [] e = 116 -> 9 [] OTHER -> e

RECURSIVE scanstring(_, _, _)
\* i is the position after the opening quote
scanstring(s, i, acc) ==
    LET c == CharAt(s, i) IN
    IF c = -1 THEN JsonFail
    ELSE IF c = 34 THEN JsonOk(PyStr(acc), i + 1)
    ELSE IF c = 92 THEN
        LET e == CharAt(s, i + 1) IN
        IF e = 117 THEN
            IF ~HasHex4(s, i + 2) THEN JsonFail
            ELSE LET u == Hex4(s, i + 2) IN
                 IF u \in 55296..56319 /\ CharAt(s, i + 6) = 92 /\ CharAt(s, i + 7) = 117
                    /\ HasHex4(s, i + 8) /\ Hex4(s, i + 8) \in 56320..57343
                 THEN scanstring(s, i + 12,
                        Append(acc, 65536 + (u - 55296) * 1024 + (Hex4(s, i + 8) - 56320)))
                 ELSE scanstring(s, i + 6, Append(acc, u))
        ELSE IF e \in BACKSLASH THEN scanstring(s, i + 2, Append(acc, Unescape(e)))
        ELSE JsonFail
    ELSE IF c < 32 THEN JsonFail
    ELSE scanstring(s, i + 1, Append(acc, c))

\* NUMBER_RE: (-?(?:0|[1-9][0-9]*))(\.[0-9]+)?([eE][-+]?[0-9]+)?
\* a..b is the integer part, b+1..c the fraction (c = b without one), e0 the
\* first digit of the exponent (0 without one), d the position after the match
NumberValue(s, neg, a, b, c, e0, d) ==
    IF c = b /\ e0 = 0
    THEN JsonOk(PyInt(IF neg THEN 0 - DigitsVal(s, a, b) ELSE DigitsVal(s, a, b)), d)
    ELSE LET fracLen == IF c = b THEN 0 ELSE c - b - 1
             mant == DigitsVal(s, a, b) * Pow10(fracLen) + DigitsVal(s, b + 1, c)
             exp == IF e0 = 0 THEN 0
                    ELSE IF CharAt(s, e0 - 1) = 45 THEN 0 - DigitsVal(s, e0, d)
                    ELSE DigitsVal(s, e0, d)
         IN JsonOk(MakeFloat(neg, mant, fracLen - exp), d)

ExponentDigits(s, c) ==
    IF CharAt(s, c) \notin {101, 69} THEN 0
    ELSE IF CharAt(s, c + 1) \in {43, 45}
         THEN (IF IsDigit(CharAt(s, c + 2)) THEN c + 2 ELSE 0)
    ELSE IF IsDigit(CharAt(s, c + 1)) THEN c + 1 ELSE 0

NumberExponent(s, neg, a, b, c, e0) ==
    NumberValue(s, neg, a, b, c, e0, IF e0 = 0 THEN c ELSE DigitsEnd(s, e0))

NumberFraction(s, neg, a, b) ==
    IF b = a THEN JsonFail
    ELSE IF CharAt(s, b) = 46 /\ IsDigit(CharAt(s, b + 1))
         THEN NumberExponent(s, neg, a, b, DigitsEnd(s, b + 1),
                             ExponentDigits(s, DigitsEnd(s, b + 1)))
    ELSE NumberExponent(s, neg, a, b, b, ExponentDigits(s, b))

NumberInteger(s, neg, a) ==
    NumberFraction(s, neg, a, IF CharAt(s, a) = 48 THEN a + 1 ELSE DigitsEnd(s, a))

match_number(s, i) ==
    NumberInteger(s, CharAt(s, i) = 45, IF CharAt(s, i) = 45 THEN i + 1 ELSE i)

RECURSIVE scan_once(_, _), JSONObject(_, _, _), JSONArray(_, _, _)
RECURSIVE ObjectAfterKey(_, _, _), ObjectAfterColon(_, _, _, _)
RECURSIVE ObjectAfterValue(_, _, _, _), ObjectNext(_, _, _), ObjectNextKey(_, _, _)
RECURSIVE ArrayAfterValue(_, _, _), ArrayNext(_, _, _)

\* the tail of scan_once: a number, or NaN, Infinity, -Infinity
NumberOrConstant(s, i, m) ==
    IF m.ok THEN m
    ELSE IF CharAt(s, i) = 78 /\ MatchAt(s, i, TxtNaN)
         THEN JsonOk(PyFloatSpecial(FALSE, "nan"), i + 3)
    ELSE IF CharAt(s, i) = 73 /\ MatchAt(s, i, TxtInfinity)
         THEN JsonOk(PyFloatSpecial(FALSE, "inf"), i + 8)
    ELSE IF CharAt(s, i) = 45 /\ MatchAt(s, i + 1, TxtInfinity)
         THEN JsonOk(PyFloatSpecial(TRUE, "inf"), i + 9)
    ELSE JsonFail

\* "{" ws ( "}" | members ): j is the position after "{" and whitespace
ObjectOpen(s, j) ==
    IF CharAt(s, j) = 125 THEN JsonOk(PyDict(<<>>), j + 1)
    ELSE IF CharAt(s, j) = 34 THEN JSONObject(s, j + 1, <<>>)
    ELSE JsonFail

\* "[" ws ( "]" | elements ): j is the position after "[" and whitespace
ArrayOpen(s, j) ==
    IF CharAt(s, j) = 93 THEN JsonOk(PyList(<<>>), j + 1)
    ELSE JSONArray(s, j, <<>>)

scan_once(s, i) ==
    LET c == CharAt(s, i) IN
    IF c = -1 THEN JsonFail
    ELSE IF c = 34 THEN scanstring(s, i + 1, <<>>)
    ELSE IF c = 123 THEN ObjectOpen(s, SkipWS(s, i + 1))
    ELSE IF c = 91 THEN ArrayOpen(s, SkipWS(s, i + 1))
    ELSE IF c = 110 /\ MatchAt(s, i, TxtNull) THEN JsonOk(PyNone, i + 4)
    ELSE IF c = 116 /\ MatchAt(s, i, TxtTrue) THEN JsonOk(PyBool(TRUE), i + 4)
    ELSE IF c = 102 /\ MatchAt(s, i, TxtFalse) THEN JsonOk(PyBool(FALSE), i + 5)
    ELSE NumberOrConstant(s, i, match_number(s, i))

\* the loop of JSONObject: i is the position after the opening quote of a key
JSONObject(s, i, pairs) == ObjectAfterKey(s, scanstring(s, i, <<>>), pairs)

ObjectAfterKey(s, key, pairs) ==
    IF ~key.ok THEN JsonFail
    ELSE ObjectAfterColon(s, key.v.s, SkipWS(s, key.n), pairs)

ObjectAfterColon(s, k, j, pairs) ==
    IF CharAt(s, j) # 58 THEN JsonFail
    ELSE ObjectAfterValue(s, k, scan_once(s, SkipWS(s, j + 1)), pairs)

ObjectAfterValue(s, k, val, pairs) ==
    IF ~val.ok THEN JsonFail
    ELSE ObjectNext(s, SkipWS(s, val.n), Append(pairs, [k |-> k, v |-> val.v]))

ObjectNext(s, m, pairs) ==
    IF CharAt(s, m) = 125 THEN JsonOk(PyDict(pairs), m + 1)
    ELSE IF CharAt(s, m) # 44 THEN JsonFail
    ELSE ObjectNextKey(s, SkipWS(s, m + 1), pairs)

ObjectNextKey(s, p, pairs) ==
    IF CharAt(s, p) = 34 THEN JSONObject(s, p + 1, pairs) ELSE JsonFail

\* the loop of JSONArray: i is the position of the next element
JSONArray(s, i, elems) == ArrayAfterValue(s, scan_once(s, i), elems)

ArrayAfterValue(s, val, elems) ==
    IF ~val.ok THEN JsonFail
    ELSE ArrayNext(s, SkipWS(s, val.n), Append(elems, val.v))

ArrayNext(s, m, elems) ==
    IF CharAt(s, m) = 93 THEN JsonOk(PyList(elems), m + 1)
    ELSE IF CharAt(s, m) # 44 THEN JsonFail
    ELSE JSONArray(s, SkipWS(s, m + 1), elems)

\* JSONDecoder.decode: the value, then nothing but whitespace
DecodeEnd(s, r) ==
    IF ~r.ok THEN [exc |-> "JSONDecodeError", v |-> PyNone]
    ELSE IF SkipWS(s, r.n) # Len(s) + 1 THEN [exc |-> "JSONDecodeError", v |-> PyNone]
    ELSE [exc |-> "", v |-> r.v]

\* json.loads(raw): [exc, v]; exc is "" or "JSONDecodeError"
json_loads(s) ==
    IF CharAt(s, 1) = 65279 THEN [exc |-> "JSONDecodeError", v |-> PyNone]
    ELSE DecodeEnd(s, scan_once(s, SkipWS(s, 1)))

RECURSIVE DictFind(_, _, _)
\* index of the last item of a dict with key k, 0 when there is none
DictFind(items, k, i) == IF i = 0 THEN 0
                         ELSE IF items[i].k = k THEN i
                         ELSE DictFind(items, k, i - 1)

\* data[key] for a str key: [exc, v]; exc is "", "KeyError" or "TypeError"
DictItem(items, i) ==
    IF i = 0 THEN [exc |-> "KeyError", v |-> PyNone]
    ELSE [exc |-> "", v |-> items[i].v]

GetItem(data, key) ==
    IF data.ty = "dict" THEN DictItem(data.items, DictFind(data.items, key, Len(data.items)))
    ELSE [exc |-> "TypeError", v |-> PyNone]

(***************************************************************************)
(* json.dumps with the default options (ensure_ascii, separators ", " and  *)
(* ": "), for None, bool, int, str and dict with str keys.                 *)
(***************************************************************************)
HexDigit(d) == IF d < 10 THEN 48 + d ELSE 87 + d

\* '\\u{0:04x}'.format(n)
Hex4Text(n) ==
    <<92, 117, HexDigit((n \div 4096) % 16), HexDigit((n \div 256) % 16),
      HexDigit((n \div 16) % 16), HexDigit(n % 16)>>

\* no replacement at all
EscapeChar_Raw(c) == <<c>>

\* the replacement of one character: ESCAPE_DCT, the character itself when
\* it is printable ASCII, or \uXXXX (a surrogate pair above the BMP)
EscapeChar(c) ==
    IF c = 92 THEN <<92, 92>>
    ELSE IF c = 34 THEN <<92, 34>>
    ELSE IF c = 8 THEN <<92, 98>>
    ELSE IF c = 12 THEN <<92, 102>>
    ELSE IF c = 10 THEN <<92, 110>>
    ELSE IF c = 13 THEN <<92, 114>>
    ELSE IF c = 9 THEN <<92, 116>>
    ELSE IF c \in 32..126 THEN <<c>>
    ELSE IF c < 65536 THEN Hex4Text(c)
    ELSE Hex4Text(55296 + (((c - 65536) \div 1024) % 1024))
         \o Hex4Text(56320 + ((c - 65536) % 1024))

RECURSIVE EscapeText(_, _)
\* the replacements of the first n characters of s
EscapeText(s, n) == IF n = 0 THEN <<>> ELSE EscapeText(s, n - 1) \o EscapeChar(s[n])

\* py_encode_basestring_ascii(s)
encode_basestring_ascii(s) == <<34>> \o EscapeText(s, Len(s)) \o <<34>>

RECURSIVE json_dumps(_)
RECURSIVE EncodeItems(_, _)
\* the members of a dict up to the n-th: "key": value, joined by ", "
EncodeItems(items, n) ==
    IF n = 0 THEN <<>>
    ELSE EncodeItems(items, n - 1) \o (IF n = 1 THEN <<>> ELSE <<44, 32>>)
         \o encode_basestring_ascii(items[n].k) \o <<58, 32>> \o json_dumps(items[n].v)

\* json.dumps(obj): the text
json_dumps(obj) ==
    CASE obj.ty = "str" -> encode_basestring_ascii(obj.s)
      [] obj.ty = "int" -> Format(obj)
      [] obj.ty = "bool" -> IF obj.b THEN TxtTrue ELSE TxtFalse
      [] obj.ty = "NoneType" -> TxtNull
      [] obj.ty = "dict" -> <<123>> \o EncodeItems(obj.items, Len(obj.items)) \o <<125>>

(***************************************************************************)
(* Inputs of the model.                                                    *)
(***************************************************************************)
\* values the remote application stores under push-endpoint
RawNotJson == <<116, 104, 105, 115, 32, 105, 115, 32, 110, 111, 116, 32, 106, 115, 111, 110>>  \* this is not json
RawFooBar == <<123, 34, 102, 111, 111, 34, 58, 32, 34, 98, 97, 114, 34, 125>>  \* {"foo": "bar"}
RawUrlHttp == <<123, 34, 117, 114, 108, 34, 58, 32, 34, 104, 116, 116, 112, 58, 47, 47, 104, 58, 57, 56, 55, 54, 47, 34, 125>>  \* {"url": "http://h:9876/"}
RawUrlHttps == <<123, 34, 117, 114, 108, 34, 58, 32, 34, 104, 116, 116, 112, 115, 58, 47, 47, 104, 58, 57, 48, 57, 49, 47, 34, 125>>  \* {"url": "https://h:9091/"}
RawUrlEscaped == <<123, 34, 117, 114, 108, 34, 58, 34, 104, 116, 116, 112, 58, 92, 47, 92, 47, 104, 58, 57, 56, 55, 54, 92, 47, 34, 125, 32>>  \* {"url":"http:\/\/h:9876\/"} and a space
RawUrlNull == <<123, 34, 117, 114, 108, 34, 58, 32, 110, 117, 108, 108, 125>>  \* {"url": null}
RawUrlNumber == <<123, 34, 117, 114, 108, 34, 58, 32, 53, 125>>  \* {"url": 5}
RawUrlNoScheme == <<123, 34, 117, 114, 108, 34, 58, 32, 34, 104, 34, 125>>  \* {"url": "h"}
RawHostPort == <<123, 34, 104, 111, 115, 116, 110, 97, 109, 101, 34, 58, 32, 34, 104, 34, 44, 32, 34, 112, 111, 114, 116, 34, 58, 32, 57, 56, 55, 54, 125>>  \* {"hostname": "h", "port": 9876}
RawTruncated == <<123, 34, 117, 114, 108, 34, 125>>  \* {"url"}
RawList == <<91, 49, 93>>  \* [1]
RawNumber == <<53>>  \* 5
RawString == <<34, 117, 114, 108, 34>>  \* "url"
RawNull == <<110, 117, 108, 108>>  \* null

RawValues == {RawNotJson, RawFooBar, RawUrlHttp, RawUrlHttps, RawUrlEscaped,
              RawUrlNull, RawUrlNumber, RawUrlNoScheme, RawHostPort,
              RawTruncated, RawList, RawNumber, RawString, RawNull}

\* http://h:9876/ and https://h:9091/
UrlHttp == <<104, 116, 116, 112, 58, 47, 47, 104, 58, 57, 56, 55, 54, 47>>
UrlHttps == <<104, 116, 116, 112, 115, 58, 47, 47, 104, 58, 57, 48, 57, 49, 47>>

\* an argument the caller does not pass
Omitted == [ty |-> "omitted"]

\* "testmetric", "", "moño", 123
NameOk == PyStr(<<116, 101, 115, 116, 109, 101, 116, 114, 105, 99>>)
NameEmpty == PyStr(<<>>)
NameNonAscii == PyStr(<<109, 111, 241, 111>>)
NameInt == PyInt(123)
Names == {NameOk, NameEmpty, NameNonAscii, NameInt}

\* 314, 3.14, True, nan, "a string", (4+5j)
ValueInt == PyInt(314)
ValueFloat == PyFloat(FALSE, 314, 2)
ValueBool == PyBool(TRUE)
ValueNaN == PyFloatSpecial(FALSE, "nan")
ValueStr == PyStr(<<97, 32, 115, 116, 114, 105, 110, 103>>)
ValueComplex == PyComplex(4, 5)
Values == {ValueInt, ValueFloat, ValueBool, ValueNaN, ValueStr, ValueComplex}

\* "testjob"
JobTest == PyStr(<<116, 101, 115, 116, 106, 111, 98>>)
JobNames == {Omitted, JobTest}
IgnoreErrors == {Omitted, PyBool(TRUE)}
VerifySsls == {Omitted, PyBool(FALSE)}

\* what the remote end does with a request: answer 2xx, answer with an error
\* status, or fail below HTTP (connection refused, name resolution, TLS)
Remotes == {[kind |-> "response", code |-> 200],
            [kind |-> "response", code |-> 400],
            [kind |-> "transport", code |-> 0]}

(***************************************************************************)
(* State.                                                                  *)
(***************************************************************************)
VARIABLES
    relations,      \* ids of the relations established on the requirer's endpoint
    relation_data,  \* relation id -> the remote application's databag (key -> value)
    call,           \* the library call the charm made in the current hook
    was_ready,      \* history: is_ready() held just before the last relation event
    unverified_posted  \* history: an earlier send_metric posted without verification

VARIABLES
    endpoint,            \* PrometheusPushgatewayProvider.endpoint of the live instance
    provider_relations,  \* ids of the relations established on the provider's endpoint
    provider_data,       \* relation id -> the provider application's databag
    hook,                \* history: the last operation of the provider side
    updated,             \* history: the argument of the last update_endpoint of the live instance
    published            \* history: relation id -> the endpoint of the last write to its databag

VARIABLES
    can_connect,       \* Pebble of the workload container answers
    files,             \* the paths that exist in the workload container
    cert_handler,      \* what the certificate handler held at the last cert_changed
    binary_output,     \* what /bin/pushgateway --version prints: [stdout, stderr]
    plan,              \* the Pebble plan of the workload container
    service_running,   \* the pushgateway service runs
    unit_status,       \* the status of the unit: [name, message]
    workload_version,  \* the workload version of the unit, None while never set
    restarted,         \* history: the last hook restarted the service
    run                \* history: TLS readiness and restarts of the current run of
                       \* configuring hooks on an undisturbed container

VARIABLES
    stored_pushgateway_url,  \* the testing charm's _stored.pushgateway_url
    tester                   \* history: the last handler the testing charm ran, and
                             \* whether its last relation handler found a payload

VARIABLES
    other_data  \* what the provider unit can also reach: its unit databag, the
                \* remote application's databag, the databag of a relation of
                \* another name (kind -> databag)

requirer_vars == <<relations, relation_data, call, was_ready, unverified_posted>>
provider_vars == <<endpoint, provider_relations, provider_data, hook, updated, published>>
charm_vars == <<can_connect, files, cert_handler, binary_output, plan, service_running,
               unit_status, workload_version, restarted, run>>
tester_vars == <<stored_pushgateway_url, tester>>
VARIABLES
    opened_ports,  \* the ports of the unit that are open: [protocol, port]
    ports_before   \* history: the ports that were open when the last hook began

elsewhere_vars == <<other_data>>
unit_vars == <<opened_ports, ports_before>>
vars == <<requirer_vars, provider_vars, charm_vars, tester_vars, elsewhere_vars, unit_vars>>

RelIds == 1..MaxRelations
ProviderRelIds == 1..MaxProviderRelations
EmptyBag == <<>>
DatabagKinds == {"unit", "remote", "other_relation"}
NoCall == [op |-> "none"]
NoHook == [op |-> "none", rel |-> 0]

\* the default of the endpoint argument: "http://127.0.0.1:9091"
DefaultEndpoint == <<104, 116, 116, 112, 58, 47, 47, 49, 50, 55, 46, 48, 46, 48, 46, 49, 58, 57, 48, 57, 49>>

\* no requirer charm runs
RequirerInit ==
    /\ relations = {}
    /\ relation_data = [r \in RelIds |-> EmptyBag]
    /\ call = NoCall
    /\ was_ready = FALSE
    /\ unverified_posted = FALSE

\* no provider is related
ProviderInit ==
    /\ provider_relations = {}
    /\ provider_data = [r \in ProviderRelIds |-> EmptyBag]
    /\ hook = NoHook
    /\ updated = PyNone
    /\ published = [r \in ProviderRelIds |-> PyNone]

\* Plan.to_dict() of a container without layers has no "services"
NoPlan == [services |-> {}]
NoRun == [tls |-> FALSE, restarts |-> 0, open |-> FALSE]
\* the output of the binary in test_version_parser.py: nothing on stdout,
\* "pushgateway, version 42.42.42 (branch: HEAD)\n  go version: go1.19.3" on stderr
OutStderr == [stdout |-> <<>>,
              stderr |-> <<112, 117, 115, 104, 103, 97, 116, 101, 119, 97, 121, 44, 32, 118, 101, 114, 115, 105, 111, 110, 32, 52, 50, 46, 52, 50, 46, 52, 50, 32, 40, 98, 114, 97, 110, 99, 104, 58, 32, 72, 69, 65, 68, 41, 10, 32, 32, 103, 111, 32, 118, 101, 114, 115, 105, 111, 110, 58, 32, 103, 111, 49, 46, 49, 57, 46, 51>>]

\* the workload container is not up, no certificate was issued, no hook ran
WorkloadInit ==
    /\ can_connect = FALSE
    /\ files = {}
    /\ cert_handler = {}
    /\ binary_output = OutStderr
    /\ plan = NoPlan
    /\ service_running = FALSE
    /\ unit_status = [name |-> "maintenance", message |-> ""]
    /\ workload_version = PyNone
    /\ restarted = FALSE
    /\ run = NoRun

\* self._stored.set_default(pushgateway_url=None)
TesterInit ==
    /\ stored_pushgateway_url = PyNone
    /\ tester = [op |-> "none", handled |-> FALSE]

\* the databags the provider does not own are empty
ElsewhereInit == other_data = [kind \in DatabagKinds |-> EmptyBag]

\* a new unit has no open port
UnitInit ==
    /\ opened_ports = {}
    /\ ports_before = {}

Init ==
    /\ RequirerInit
    /\ ProviderInit
    /\ endpoint = DefaultEndpoint
    /\ WorkloadInit
    /\ TesterInit
    /\ ElsewhereInit
    /\ UnitInit

(***************************************************************************)
(* ops: Model.get_relation(name) and dict.get(key).                        *)
(***************************************************************************)
\* [exc, rel]: rel is 0 for None
get_relation ==
    IF Cardinality(relations) = 0 THEN [exc |-> "", rel |-> 0]
    ELSE IF Cardinality(relations) = 1
         THEN [exc |-> "", rel |-> CHOOSE r \in relations : TRUE]
    ELSE [exc |-> "TooManyRelatedAppsError", rel |-> 0]

BagGet(bag, key) == IF key \in DOMAIN bag THEN PyStr(bag[key]) ELSE PyNone
BagSet(bag, key, val) == [k \in (DOMAIN bag) \cup {key} |-> IF k = key THEN val ELSE bag[k]]
BagDel(bag, key) == [k \in (DOMAIN bag) \ {key} |-> bag[k]]

(***************************************************************************)
(* PrometheusPushgatewayRequirer.                                          *)
(***************************************************************************)
Return(v) == [exc |-> "", v |-> v]
Raise(exc) == [exc |-> exc, v |-> PyNone]

\* url = data["url"], except KeyError: return None; return url
UrlOfData(url) ==
    IF url.exc = "KeyError" THEN Return(PyNone)
    ELSE IF url.exc # "" THEN Raise(url.exc)
    ELSE Return(url.v)

\* data = json.loads(raw_data), except JSONDecodeError: return None
UrlOfLoaded(loaded) ==
    IF loaded.exc = "JSONDecodeError" THEN Return(PyNone)
    ELSE UrlOfData(GetItem(loaded.v, TxtUrl))

\* the lookup without the check for a missing push-endpoint key: it falls
\* back to the payload of a default endpoint
UrlOfRawData_NoDataCheck(raw_data) ==
    UrlOfLoaded(json_loads(IF raw_data = PyNone THEN RawUrlHttp ELSE raw_data.s))

\* if raw_data is None: return None
UrlOfRawData(raw_data) ==
    IF raw_data = PyNone THEN Return(PyNone)
    ELSE UrlOfLoaded(json_loads(raw_data.s))

\* the lookup that remembers the URL of a requirer that was ready
UrlOfRelation_Stale(relation) ==
    IF was_ready THEN Return(PyStr(UrlHttp))
    ELSE IF relation.exc # "" THEN Raise(relation.exc)
    ELSE IF relation.rel = 0 THEN Return(PyNone)
    ELSE UrlOfRawData(BagGet(relation_data[relation.rel], RELATION_KEY))

\* if relation is None: return None
UrlOfRelation(relation) ==
    IF relation.exc # "" THEN Raise(relation.exc)
    ELSE IF relation.rel = 0 THEN Return(PyNone)
    ELSE UrlOfRawData(BagGet(relation_data[relation.rel], RELATION_KEY))

\* the property _pushgateway_url: [exc, v]
pushgateway_url == UrlOfRelation(get_relation)

IsNotNone(url) ==
    IF url.exc # "" THEN Raise(url.exc) ELSE Return(PyBool(url.v # PyNone))

\* is_ready(): [exc, v] with v a bool
is_ready == IsNotNone(pushgateway_url)

\* the value of a keyword argument
Arg(given, default) == IF given = Omitted THEN default ELSE given

\* the name check without the isascii() test
NameRejected_NoAscii(name) == ~IsInstanceStr(name) \/ name.s = <<>>

\* not isinstance(name, str) or not name.isascii() or not name
NameRejected(name) == ~IsInstanceStr(name) \/ ~isascii(name.s) \/ name.s = <<>>

\* the value check against (float, int, complex)
ValueRejected_Complex(value) == ~(IsInstanceFloatInt(value) \/ value.ty = "complex")

\* not isinstance(value, (float, int))
ValueRejected(value) == ~IsInstanceFloatInt(value)

\* f"{name} {value}\n".encode("ascii")
Payload(name, value) == EncodeAscii(Format(name) \o <<32>> \o Format(value) \o <<10>>)

\* the submission URL with the job name of the testing charm hard-coded
PostUrl_FixedJob(url, job_name) ==
    Format(url) \o TxtMetricsJob \o <<116, 101, 115, 116, 106, 111, 98>>

\* f"{pushgateway_url}metrics/job/{job_name}"
PostUrl(url, job_name) == Format(url) \o TxtMetricsJob \o Format(job_name)

\* a context shared by the calls, which stays relaxed once it was relaxed
SslContext_Sticky(verify_ssl) ==
    IF ~verify_ssl.b \/ unverified_posted
    THEN [check_hostname |-> FALSE, verify_mode |-> "CERT_NONE"]
    ELSE [check_hostname |-> TRUE, verify_mode |-> "CERT_REQUIRED"]

\* ssl.create_default_context(), relaxed when verify_ssl is false
SslContext(verify_ssl) ==
    IF ~verify_ssl.b THEN [check_hostname |-> FALSE, verify_mode |-> "CERT_NONE"]
    ELSE [check_hostname |-> TRUE, verify_mode |-> "CERT_REQUIRED"]

\* request.urlopen(url, data=..., context=...): the exception it raises, ""
\* when it returns.  A url without an http(s) scheme is refused before any
\* connection is made.
urlopen(url, remote) ==
    IF ~(StartsWith(url, TxtHttp) \/ StartsWith(url, TxtHttps)) THEN "ValueError"
    ELSE IF remote.kind = "transport" THEN "URLError"
    ELSE IF remote.code \in 200..299 THEN ""
    ELSE "HTTPError"

\* the try/except with the test on ignore_error inverted
Surfaced_Inverted(raised, ignore_error) ==
    IF raised = "HTTPError" THEN (IF ignore_error.b THEN "HTTPError" ELSE "")
    ELSE raised

\* the try/except around urlopen: the exception that leaves send_metric
Surfaced(raised, ignore_error) ==
    IF raised = "HTTPError" THEN (IF ~ignore_error.b THEN "HTTPError" ELSE "")
    ELSE raised

\* a second attempt after a failure the caller asked to ignore
Attempts_Retry(req, raised, ignore_error) ==
    IF raised # "" /\ ignore_error.b THEN <<req, req>> ELSE <<req>>

\* the calls of request.urlopen one send_metric makes for a request
Attempts(req, raised, ignore_error) == <<req>>

\* try: request.urlopen(...) except HTTPError: ...
TryUrlopen(req, raised, ignore_error) ==
    [exc |-> Surfaced(raised, ignore_error), msg |-> "",
     requests |-> Attempts(req, raised, ignore_error)]

Post(req, ignore_error, remote) == TryUrlopen(req, urlopen(req.url, remote), ignore_error)

\* the body of send_metric, url being the result of _pushgateway_url
SendMetricBody(url, name, value, ignore_error, verify_ssl, job_name, remote) ==
    IF url.exc # "" THEN [exc |-> url.exc, msg |-> "", requests |-> <<>>]
    ELSE IF url.v = PyNone THEN
        [exc |-> "ValueError", msg |-> "The service is not ready.", requests |-> <<>>]
    ELSE IF NameRejected(name) THEN
        [exc |-> "ValueError", msg |-> "The name must be a non-empty ASCII string.",
         requests |-> <<>>]
    ELSE IF ValueRejected(value) THEN
        [exc |-> "ValueError", msg |-> "The metric value must be an integer or float number.",
         requests |-> <<>>]
    ELSE Post([url |-> PostUrl(url.v, job_name), data |-> Payload(name, value),
               context |-> SslContext(verify_ssl)], ignore_error, remote)

\* send_metric: [exc, msg, requests]
send_metric(name, value, ignore_error, verify_ssl, job_name, remote) ==
    SendMetricBody(pushgateway_url, name, value, Arg(ignore_error, PyBool(FALSE)),
                   Arg(verify_ssl, PyBool(TRUE)), Arg(job_name, PyStr(TxtDefault)), remote)

(***************************************************************************)
(* Actions.  The charm runs one hook at a time: a relation event changes   *)
(* what the model holds, the charm calls the library, the hook ends.       *)
(***************************************************************************)
\* relation-created: the relation exists, the remote databag is empty
RelationCreated(r) ==
    /\ call = NoCall
    /\ r \notin relations
    /\ relations' = relations \cup {r}
    /\ relation_data' = [relation_data EXCEPT ![r] = EmptyBag]
    /\ was_ready' = (is_ready = Return(PyBool(TRUE)))
    /\ UNCHANGED <<call, unverified_posted>>
    /\ UNCHANGED <<provider_vars, charm_vars, tester_vars, elsewhere_vars, unit_vars>>

\* relation-changed: the remote application set push-endpoint to raw
RemoteDataChanged(r, raw) ==
    /\ call = NoCall
    /\ r \in relations
    /\ BagGet(relation_data[r], RELATION_KEY) # PyStr(raw)
    /\ relation_data' = [relation_data EXCEPT ![r] = BagSet(@, RELATION_KEY, raw)]
    /\ was_ready' = (is_ready = Return(PyBool(TRUE)))
    /\ UNCHANGED <<call, unverified_posted>>
    /\ UNCHANGED <<provider_vars, charm_vars, tester_vars, elsewhere_vars, unit_vars>>
    /\ UNCHANGED relations

\* relation-changed: the remote application deleted push-endpoint
RemoteDataDeleted(r) ==
    /\ call = NoCall
    /\ r \in relations
    /\ RELATION_KEY \in DOMAIN relation_data[r]
    /\ relation_data' = [relation_data EXCEPT ![r] = BagDel(@, RELATION_KEY)]
    /\ was_ready' = (is_ready = Return(PyBool(TRUE)))
    /\ UNCHANGED <<call, unverified_posted>>
    /\ UNCHANGED <<provider_vars, charm_vars, tester_vars, elsewhere_vars, unit_vars>>
    /\ UNCHANGED relations

\* the relation is removed (after relation-broken)
RelationRemoved(r) ==
    /\ call = NoCall
    /\ r \in relations
    /\ relations' = relations \ {r}
    /\ relation_data' = [relation_data EXCEPT ![r] = EmptyBag]
    /\ was_ready' = (is_ready = Return(PyBool(TRUE)))
    /\ UNCHANGED <<call, unverified_posted>>
    /\ UNCHANGED <<provider_vars, charm_vars, tester_vars, elsewhere_vars, unit_vars>>

\* the charm calls is_ready()
CallIsReady ==
    /\ call = NoCall
    /\ call' = [op |-> "is_ready", result |-> is_ready]
    /\ UNCHANGED <<relations, relation_data, was_ready, unverified_posted>>
    /\ UNCHANGED <<provider_vars, charm_vars, tester_vars, elsewhere_vars, unit_vars>>

\* a request of the call went out with certificate verification off
PostedUnverified(result) ==
    \E i \in 1..Len(result.requests) : result.requests[i].context.verify_mode = "CERT_NONE"

\* the charm calls send_metric(name, value, ...), the remote end behaves as remote
CallSendMetric(name, value, ignore_error, verify_ssl, job_name, remote) ==
    /\ call = NoCall
    /\ call' = [op |-> "send_metric", name |-> name, value |-> value,
                ignore_error |-> ignore_error, verify_ssl |-> verify_ssl,
                job_name |-> job_name, remote |-> remote,
                result |-> send_metric(name, value, ignore_error, verify_ssl,
                                       job_name, remote)]
    /\ unverified_posted' = (unverified_posted \/ PostedUnverified(call'.result))
    /\ UNCHANGED <<relations, relation_data, was_ready>>
    /\ UNCHANGED <<provider_vars, charm_vars, tester_vars, elsewhere_vars, unit_vars>>

\* the hook ends; the next one starts a new charm instance
HookEnd ==
    /\ call # NoCall
    /\ call' = NoCall
    /\ UNCHANGED <<relations, relation_data, was_ready, unverified_posted>>
    /\ UNCHANGED <<provider_vars, charm_vars, tester_vars, elsewhere_vars, unit_vars>>

Next ==
    \/ \E r \in RelIds : RelationCreated(r)
    \/ \E r \in RelIds, raw \in RawValues : RemoteDataChanged(r, raw)
    \/ \E r \in RelIds : RemoteDataDeleted(r)
    \/ \E r \in RelIds : RelationRemoved(r)
    \/ CallIsReady
    \/ HookEnd
    \/ \E name \in Names, value \in Values, ignore_error \in IgnoreErrors,
          verify_ssl \in VerifySsls, job_name \in JobNames, remote \in Remotes :
          CallSendMetric(name, value, ignore_error, verify_ssl, job_name, remote)

Spec == Init /\ [][Next]_vars

\* the payloads for which a requirer with one relation answers is_ready()
EndpointRaws == {RawNotJson, RawFooBar, RawUrlHttp, RawUrlHttps, RawHostPort}
\* the relations that applications can establish on the requirer's endpoint
EndpointRelIds == 1..MaxEndpointRelations

\* no relation is established on the requirer's endpoint
EndpointInit ==
    /\ relations = {}
    /\ relation_data = [r \in EndpointRelIds |-> EmptyBag]
    /\ call = NoCall
    /\ was_ready = FALSE
    /\ unverified_posted = FALSE
    /\ ProviderInit
    /\ endpoint = DefaultEndpoint
    /\ WorkloadInit
    /\ TesterInit
    /\ ElsewhereInit
    /\ UnitInit

\* the requirer's endpoint with as many relations as applications establish
EndpointNext ==
    \/ \E r \in EndpointRelIds : RelationCreated(r)
    \/ \E r \in EndpointRelIds, raw \in EndpointRaws : RemoteDataChanged(r, raw)
    \/ \E r \in EndpointRelIds : RemoteDataDeleted(r)
    \/ \E r \in EndpointRelIds : RelationRemoved(r)
    \/ CallIsReady
    \/ HookEnd

EndpointSpec == EndpointInit /\ [][EndpointNext]_vars

(***************************************************************************)
(* PrometheusPushgatewayProvider.  The unit that runs the hooks is the     *)
(* leader, the one unit Juju lets write the application databag.           *)
(***************************************************************************)
\* endpoints a charm hands to the provider: the charm's own URL, text that
\* JSON must escape (quote, backslash, newline, 0x1f, DEL), text outside
\* ASCII (n with tilde, an emoji above the BMP, a lone surrogate), no text
EndpointCharm == <<104, 116, 116, 112, 58, 47, 47, 116, 101, 115, 116, 104, 111, 115, 116, 58, 57, 48, 57, 49, 47>>  \* http://testhost:9091/
EndpointEscapes == <<97, 34, 98, 92, 99, 10, 31, 127, 47>>
EndpointUnicode == <<104, 241, 128512, 55296>>
EndpointEmpty == <<>>
Endpoints == {DefaultEndpoint, EndpointCharm, EndpointEscapes, EndpointUnicode, EndpointEmpty}

\* the payload of the constructor's default endpoint, whatever e is
EndpointPayload_Default(e) == json_dumps(PyDict(<<[k |-> TxtUrl, v |-> PyStr(DefaultEndpoint)]>>))

\* json.dumps({"url": self.endpoint})
EndpointPayload(e) == json_dumps(PyDict(<<[k |-> TxtUrl, v |-> PyStr(e)]>>))

\* the databag is replaced by one that holds push-endpoint alone
Publish_Replace(bag, e) == BagSet(EmptyBag, RELATION_KEY, EndpointPayload(e))

\* the assignment that leaves a value already stored under the key in place
Publish_KeepFirst(bag, e) ==
    IF RELATION_KEY \in DOMAIN bag THEN bag
    ELSE BagSet(bag, RELATION_KEY, EndpointPayload(e))

\* relation_data[RELATION_KEY] = json.dumps({"url": self.endpoint})
Publish(bag, e) == BagSet(bag, RELATION_KEY, EndpointPayload(e))

\* the loop that stops after the first relation
PublishAll_FirstOnly(data, rels, e) ==
    [r \in DOMAIN data |->
        IF r \in rels /\ (\A q \in rels : r <= q) THEN Publish(data[r], e) ELSE data[r]]

\* for rel in self._charm.model.relations.get(self._relation_name, []): ...
PublishAll(data, rels, e) ==
    [r \in DOMAIN data |-> IF r \in rels THEN Publish(data[r], e) ELSE data[r]]

\* the charm constructs the provider with endpoint e: a new hook, or the
\* begin() of a test harness
Construct(e) ==
    /\ call = NoCall
    /\ endpoint' = e
    /\ hook' = [op |-> "init", rel |-> 0]
    /\ updated' = PyNone
    /\ UNCHANGED <<provider_relations, provider_data, published>>
    /\ UNCHANGED <<requirer_vars, charm_vars, tester_vars, elsewhere_vars, unit_vars>>

\* relation-created on relation r: _on_relation_changed
ProviderRelationCreated(r) ==
    /\ call = NoCall
    /\ r \notin provider_relations
    /\ provider_relations' = provider_relations \cup {r}
    /\ provider_data' = [provider_data EXCEPT ![r] = Publish(EmptyBag, endpoint)]
    /\ hook' = [op |-> "relation_created", rel |-> r]
    /\ published' = [published EXCEPT ![r] = PyStr(endpoint)]
    /\ UNCHANGED <<endpoint, updated>>
    /\ UNCHANGED <<requirer_vars, charm_vars, tester_vars, elsewhere_vars, unit_vars>>

\* relation-changed on relation r: _on_relation_changed
ProviderRelationChanged(r) ==
    /\ call = NoCall
    /\ r \in provider_relations
    /\ provider_data' = [provider_data EXCEPT ![r] = Publish(@, endpoint)]
    /\ hook' = [op |-> "relation_changed", rel |-> r]
    /\ published' = [published EXCEPT ![r] = PyStr(endpoint)]
    /\ UNCHANGED <<endpoint, updated, provider_relations>>
    /\ UNCHANGED <<requirer_vars, charm_vars, tester_vars, elsewhere_vars, unit_vars>>

\* the charm calls update_endpoint(e)
update_endpoint(e) ==
    /\ call = NoCall
    /\ endpoint' = e
    /\ provider_data' = PublishAll(provider_data, provider_relations, e)
    /\ hook' = [op |-> "update_endpoint", rel |-> 0]
    /\ updated' = PyStr(e)
    /\ published' = [r \in ProviderRelIds |->
                        IF r \in provider_relations THEN PyStr(e) ELSE published[r]]
    /\ UNCHANGED provider_relations
    /\ UNCHANGED <<requirer_vars, charm_vars, tester_vars, elsewhere_vars, unit_vars>>

\* relation r is removed (after relation-broken); the library observes nothing
ProviderRelationRemoved(r) ==
    /\ call = NoCall
    /\ r \in provider_relations
    /\ provider_relations' = provider_relations \ {r}
    /\ provider_data' = [provider_data EXCEPT ![r] = EmptyBag]
    /\ hook' = [op |-> "relation_removed", rel |-> r]
    /\ published' = [published EXCEPT ![r] = PyNone]
    /\ UNCHANGED <<endpoint, updated>>
    /\ UNCHANGED <<requirer_vars, charm_vars, tester_vars, elsewhere_vars, unit_vars>>

\* the requirer application at the other end of relation r runs a hook: its
\* one relation carries the provider's databag as the remote data
RequirerObserves(r) ==
    /\ call = NoCall
    /\ r \in provider_relations
    /\ relations' = {1}
    /\ relation_data' = [relation_data EXCEPT ![1] = provider_data[r]]
    /\ call' = [op |-> "observe", rel |-> r]
    /\ UNCHANGED <<was_ready, unverified_posted>>
    /\ UNCHANGED <<provider_vars, charm_vars, tester_vars, elsewhere_vars, unit_vars>>

\* the requirer's hook ends
RequirerHookEnd ==
    /\ call.op = "observe"
    /\ relations' = {}
    /\ relation_data' = [relation_data EXCEPT ![1] = EmptyBag]
    /\ call' = NoCall
    /\ UNCHANGED <<was_ready, unverified_posted>>
    /\ UNCHANGED <<provider_vars, charm_vars, tester_vars, elsewhere_vars, unit_vars>>

\* the library under a charm that passes any endpoint
LibInit ==
    /\ RequirerInit
    /\ ProviderInit
    /\ endpoint \in Endpoints
    /\ WorkloadInit
    /\ TesterInit
    /\ ElsewhereInit
    /\ UnitInit

LibNext ==
    \/ \E e \in Endpoints : Construct(e)
    \/ \E r \in ProviderRelIds : ProviderRelationCreated(r)
    \/ \E r \in ProviderRelIds : ProviderRelationChanged(r)
    \/ \E e \in Endpoints : update_endpoint(e)
    \/ \E r \in ProviderRelIds : ProviderRelationRemoved(r)
    \/ \E r \in ProviderRelIds : RequirerObserves(r)
    \/ RequirerHookEnd

LibSpec == LibInit /\ [][LibNext]_vars

\* "other", "x": a key of its own that the charm keeps in its application
\* databag, and a value
TxtOtherKey == <<111, 116, 104, 101, 114>>
TxtOtherValue == <<120>>

\* the charm sets or deletes its own key in its application databag of r
CharmWritesOtherKey(r) ==
    /\ call = NoCall
    /\ r \in provider_relations
    /\ provider_data' = [provider_data EXCEPT ![r] =
                            IF TxtOtherKey \in DOMAIN @ THEN BagDel(@, TxtOtherKey)
                            ELSE BagSet(@, TxtOtherKey, TxtOtherValue)]
    /\ hook' = [op |-> "other_key", rel |-> r]
    /\ UNCHANGED <<endpoint, updated, provider_relations, published>>
    /\ UNCHANGED <<requirer_vars, charm_vars, tester_vars, elsewhere_vars, unit_vars>>

\* somebody else writes a databag the provider does not own, or the unit
\* writes its unit databag
OtherDataChanged(kind) ==
    /\ call = NoCall
    /\ other_data' = [other_data EXCEPT ![kind] =
                         IF @ = EmptyBag THEN BagSet(@, TxtOtherKey, TxtOtherValue)
                         ELSE EmptyBag]
    /\ hook' = [op |-> "other_data", rel |-> 0]
    /\ UNCHANGED <<endpoint, updated, provider_relations, provider_data, published>>
    /\ UNCHANGED <<requirer_vars, charm_vars, tester_vars, unit_vars>>

\* the provider among the other data of its unit
DatabagNext ==
    \/ \E r \in ProviderRelIds : ProviderRelationCreated(r)
    \/ \E r \in ProviderRelIds : ProviderRelationChanged(r)
    \/ \E e \in Endpoints : update_endpoint(e)
    \/ \E r \in ProviderRelIds : ProviderRelationRemoved(r)
    \/ \E r \in ProviderRelIds : CharmWritesOtherKey(r)
    \/ \E kind \in DatabagKinds : OtherDataChanged(kind)

DatabagSpec == LibInit /\ [][DatabagNext]_vars

(***************************************************************************)
(* PrometheusPushgatewayK8SOperatorCharm.  Every hook constructs the charm *)
(* and with it the provider, then runs the handler of the event.           *)
(***************************************************************************)
\* socket.getfqdn(): "testhost"
Hostname == <<116, 101, 115, 116, 104, 111, 115, 116>>
http_listen_port == 9091
\* "http", "https", "://"
TxtSchemeHttp == <<104, 116, 116, 112>>
TxtSchemeHttps == <<104, 116, 116, 112, 115>>
TxtSchemeSep == <<58, 47, 47>>

\* "/data/metrics", "/etc/pushgateway", "/bin/pushgateway"
METRICS_PATH == <<47, 100, 97, 116, 97, 47, 109, 101, 116, 114, 105, 99, 115>>
PUSHGATEWAY_DIR == <<47, 101, 116, 99, 47, 112, 117, 115, 104, 103, 97, 116, 101, 119, 97, 121>>
PUSHGATEWAY_BINARY == <<47, 98, 105, 110, 47, 112, 117, 115, 104, 103, 97, 116, 101, 119, 97, 121>>
\* f"{PUSHGATEWAY_DIR}/server.key", ".../server.cert", ".../cos-ca.crt"
KEY_PATH == PUSHGATEWAY_DIR \o <<47, 115, 101, 114, 118, 101, 114, 46, 107, 101, 121>>
CERT_PATH == PUSHGATEWAY_DIR \o <<47, 115, 101, 114, 118, 101, 114, 46, 99, 101, 114, 116>>
CA_CERT_PATH == PUSHGATEWAY_DIR \o <<47, 99, 111, 115, 45, 99, 97, 46, 99, 114, 116>>
\* "/usr/local/share/ca-certificates/cos-ca.crt"
CA_CERT_TRUSTED_PATH == <<47, 117, 115, 114, 47, 108, 111, 99, 97, 108, 47, 115, 104, 97, 114, 101, 47, 99, 97, 45, 99, 101, 114, 116, 105, 102, 105, 99, 97, 116, 101, 115, 47, 99, 111, 115, 45, 99, 97, 46, 99, 114, 116>>
\* f"{PUSHGATEWAY_DIR}/web-config.yml"
WEB_CONFIG_PATH == PUSHGATEWAY_DIR \o <<47, 119, 101, 98, 45, 99, 111, 110, 102, 105, 103, 46, 121, 109, 108>>
\* "--persistence.file=", "--web.config.file="
TxtPersistenceFlag == <<45, 45, 112, 101, 114, 115, 105, 115, 116, 101, 110, 99, 101, 46, 102, 105, 108, 101, 61>>
TxtWebConfigFlag == <<45, 45, 119, 101, 98, 46, 99, 111, 110, 102, 105, 103, 46, 102, 105, 108, 101, 61>>

\* the paths the charm writes in the workload container
ContainerPaths == {CERT_PATH, KEY_PATH, CA_CERT_PATH, CA_CERT_TRUSTED_PATH, WEB_CONFIG_PATH}

\* the certificate handler: which of enabled, cert, key and ca are truthy
CertHandlerItems == {"enabled", "cert", "key", "ca"}
CertHandlerFull == CertHandlerItems
\* it holds nothing, everything, or everything but one item
CertHandlerStates ==
    {{}, CertHandlerFull} \cup {CertHandlerFull \ {item} : item \in CertHandlerItems}

\* what the binary can print: the version on stdout only, a different version
\* on each stream, a warning on stderr and the version on stdout, the
\* version at the end of the text
OutStdout == [stdout |-> <<112, 117, 115, 104, 103, 97, 116, 101, 119, 97, 121, 44, 32, 118, 101, 114, 115, 105, 111, 110, 32, 49, 46, 54, 46, 48, 32, 40, 98, 114, 97, 110, 99, 104, 58, 32, 72, 69, 65, 68, 41>>, stderr |-> <<>>]
OutBoth == [stdout |-> <<112, 117, 115, 104, 103, 97, 116, 101, 119, 97, 121, 44, 32, 118, 101, 114, 115, 105, 111, 110, 32, 49, 46, 54, 46, 48, 32, 40, 98, 114, 97, 110, 99, 104, 58, 32, 72, 69, 65, 68, 41>>,
            stderr |-> <<112, 117, 115, 104, 103, 97, 116, 101, 119, 97, 121, 44, 32, 118, 101, 114, 115, 105, 111, 110, 32, 49, 46, 53, 46, 49, 32, 40, 98, 114, 97, 110, 99, 104, 58, 32, 72, 69, 65, 68, 41>>]
OutNoise == [stdout |-> <<112, 117, 115, 104, 103, 97, 116, 101, 119, 97, 121, 44, 32, 118, 101, 114, 115, 105, 111, 110, 32, 49, 46, 54, 46, 48, 32, 40, 98, 114, 97, 110, 99, 104, 58, 32, 72, 69, 65, 68, 41>>,
             stderr |-> <<108, 101, 118, 101, 108, 61, 119, 97, 114, 110>>]
OutNoSpace == [stdout |-> <<>>, stderr |-> <<112, 117, 115, 104, 103, 97, 116, 101, 119, 97, 121, 44, 32, 118, 101, 114, 115, 105, 111, 110, 32, 49, 46, 54, 46, 48>>]
BinaryOutputs == {OutStderr, OutStdout, OutBoth, OutNoise, OutNoSpace}

\* OpenedPort(protocol, port)
OpenedPort(protocol, port) == [protocol |-> protocol, port |-> port]
\* planned_ports
PlannedPorts == {OpenedPort("tcp", http_listen_port)}
\* the ports another revision of the charm, or an operator, may have opened
OtherPorts == {OpenedPort("tcp", 8080), OpenedPort("udp", http_listen_port)}

\* the planned ports are opened, no port is closed
SetPorts_OpenOnly(actual) == actual \cup (PlannedPorts \ actual)

\* _set_ports: the open ports afterwards, every port of ports_to_close
\* closed and every port of new_ports_to_open opened
SetPorts(actual) ==
    (actual \ (actual \ PlannedPorts)) \cup (PlannedPorts \ actual)

\* _tls_ready, for a container that answers or not and holds the paths fs
TlsReady(connect, fs) ==
    connect /\ CERT_PATH \in fs /\ KEY_PATH \in fs /\ CA_CERT_PATH \in fs

\* _endpoint: f"{scheme}://{self._hostname}:{self._http_listen_port}/"
Endpoint(tls) ==
    (IF tls THEN TxtSchemeHttps ELSE TxtSchemeHttp) \o TxtSchemeSep \o Hostname \o <<58>>
    \o Format(PyInt(http_listen_port)) \o <<47>>

\* _web_config is a dict (TRUE) or None (FALSE)
WebConfig(connect, fs) == TlsReady(connect, fs)

\* " ".join(command)
RECURSIVE JoinSpace(_)
JoinSpace(parts) ==
    IF Len(parts) = 0 THEN <<>>
    ELSE IF Len(parts) = 1 THEN parts[1]
    ELSE parts[1] \o <<32>> \o JoinSpace(Tail(parts))

\* _command
Command(connect, fs) ==
    JoinSpace(<<PUSHGATEWAY_BINARY, TxtPersistenceFlag \o METRICS_PATH>>
              \o (IF WebConfig(connect, fs) THEN <<TxtWebConfigFlag \o WEB_CONFIG_PATH>>
                  ELSE <<>>))

\* case folding of re.IGNORECASE for the characters that match an ASCII letter
Fold(c) ==
    IF c >= 65 /\ c <= 90 THEN c + 32
    ELSE IF c = 8490 THEN 107
    ELSE IF c = 383 THEN 115
    ELSE c

\* "pushgateway, version ", the literal before {} in the format
TxtVersionPrefix == <<112, 117, 115, 104, 103, 97, 116, 101, 119, 97, 121, 44, 32, 118, 101, 114, 115, 105, 111, 110, 32>>

MatchAtFold(text, i, lit) ==
    /\ i + Len(lit) - 1 <= Len(text)
    /\ \A k \in 1..Len(lit) : Fold(text[i + k - 1]) = lit[k]

\* the positions where the literal matches and {} can match: one character
\* at least, then a space
SearchStarts(text) ==
    {i \in 1..Len(text) :
        /\ MatchAtFold(text, i, TxtVersionPrefix)
        /\ \E j \in (i + Len(TxtVersionPrefix) + 1)..Len(text) : text[j] = 32}

MinOf(S) == CHOOSE x \in S : \A y \in S : x <= y

\* the text {} matches when it starts at g: the shortest one before a space
SearchGroup(text, g) ==
    SubSeq(text, g, MinOf({j \in (g + 1)..Len(text) : text[j] = 32}) - 1)

\* search("pushgateway, version {} ", text): None, or result[0]
Search(text) ==
    IF SearchStarts(text) = {} THEN PyNone
    ELSE PyStr(SearchGroup(text, MinOf(SearchStarts(text)) + Len(TxtVersionPrefix)))

\* stdout is read first
VersionOutput_StdoutFirst(out) == IF out.stdout # <<>> THEN out.stdout ELSE out.stderr

\* version_output = _ if _ else version_output
VersionOutput(out) == IF out.stderr # <<>> THEN out.stderr ELSE out.stdout

\* _service_version
ServiceVersion(connect, out) ==
    IF ~connect THEN PyNone ELSE Search(VersionOutput(out))

\* _set_service_version: the workload version afterwards
SetServiceVersion(current, version) ==
    IF version.ty = "NoneType" THEN current ELSE version

\* _certs_available
CertsAvailable(handler) ==
    "enabled" \in handler /\ "cert" \in handler /\ "key" \in handler /\ "ca" \in handler

\* the keys of certs in _update_certs
CertPaths == {CERT_PATH, KEY_PATH, CA_CERT_PATH, CA_CERT_TRUSTED_PATH}

\* the handler's item that is the content of the path
ContentOf(path) ==
    IF path = CERT_PATH THEN "cert" ELSE IF path = KEY_PATH THEN "key" ELSE "ca"

\* each file is pushed when the handler holds its content, removed otherwise
UpdateCerts_PerFile(connect, fs, handler) ==
    IF ~connect THEN fs
    ELSE (fs \ CertPaths)
         \cup {p \in CertPaths : "enabled" \in handler /\ ContentOf(p) \in handler}

\* _update_certs: the paths in the container afterwards
UpdateCerts(connect, fs, handler) ==
    IF ~connect THEN fs
    ELSE IF CertsAvailable(handler) THEN fs \cup CertPaths
    ELSE fs \ CertPaths

\* a web-config file that was pushed is never removed
HandleWebConfig_KeepStale(connect, fs) ==
    IF WebConfig(connect, fs) THEN fs \cup {WEB_CONFIG_PATH} ELSE fs

\* _handle_web_config: the paths in the container afterwards
HandleWebConfig(connect, fs) ==
    IF WebConfig(connect, fs) THEN fs \cup {WEB_CONFIG_PATH} ELSE fs \ {WEB_CONFIG_PATH}

\* _build_pebble_layer
BuildPebbleLayer(connect, fs) ==
    [summary |-> "prometheus pushgateway layer",
     description |-> "pebble config layer for prometheus pushgateway",
     services |-> {[name |-> "pushgateway",
                    override |-> "replace",
                    summary |-> "pushgateway process",
                    command |-> Command(connect, fs),
                    startup |-> "enabled"]}]

\* the layer is added in every hook
SetPebbleLayer_Always(current, new) == TRUE

\* _set_pebble_layer: its return value
SetPebbleLayer(current, new) ==
    current.services = {} \/ current.services # new.services

\* the services of the layer are added to those of the plan
AddLayer_Append(current, new) == [services |-> current.services \cup new.services]

\* add_layer(self._name, new_layer, combine=True) on the plan current
AddLayer(current, new) ==
    [services |-> {s \in current.services : \A n \in new.services : n.name # s.name}
                  \cup new.services]

ActiveStatus == [name |-> "active", message |-> ""]
\* WaitingStatus("Waiting for Pebble ready")
WaitingStatus == [name |-> "waiting", message |-> "Waiting for Pebble ready"]

\* the restarts of a run after one more hook; more than two are not counted
RestartsAfter(before, r) ==
    IF ~r THEN before ELSE IF before >= 2 THEN 2 ELSE before + 1

\* the run of configuring hooks after one more of them
RunAfter(current, tls, r) ==
    [tls |-> tls,
     restarts |-> RestartsAfter(IF current.open /\ current.tls = tls
                                THEN current.restarts ELSE 0, r),
     open |-> TRUE]

\* _configure in a hook, for a container that answers or not and holds the
\* paths fs when _configure starts
ConfigureIn(connect, fs) ==
    /\ files' = (IF connect THEN HandleWebConfig(connect, fs) ELSE fs)
    /\ workload_version' = SetServiceVersion(workload_version,
                                             ServiceVersion(connect, binary_output))
    /\ restarted' = (connect /\ SetPebbleLayer(plan, BuildPebbleLayer(connect, files')))
    /\ plan' = (IF restarted' THEN AddLayer(plan, BuildPebbleLayer(connect, files')) ELSE plan)
    /\ service_running' = (restarted' \/ service_running)
    /\ unit_status' = (IF connect THEN ActiveStatus ELSE WaitingStatus)
    /\ UNCHANGED binary_output

\* relation-created on relation r of push-endpoint
CharmRelationCreated(r) ==
    /\ r \notin provider_relations
    /\ endpoint' = Endpoint(TlsReady(can_connect, files))
    /\ provider_relations' = provider_relations \cup {r}
    /\ provider_data' = [provider_data EXCEPT ![r] = Publish(EmptyBag, endpoint')]
    /\ hook' = [op |-> "relation_created", rel |-> r]
    /\ updated' = PyNone
    /\ published' = [published EXCEPT ![r] = PyStr(endpoint')]
    /\ UNCHANGED <<requirer_vars, charm_vars, tester_vars, elsewhere_vars>>
    /\ ports_before' = opened_ports
    /\ opened_ports' = SetPorts(opened_ports)

\* relation-changed on relation r of push-endpoint
CharmRelationChanged(r) ==
    /\ r \in provider_relations
    /\ endpoint' = Endpoint(TlsReady(can_connect, files))
    /\ provider_data' = [provider_data EXCEPT ![r] = Publish(@, endpoint')]
    /\ hook' = [op |-> "relation_changed", rel |-> r]
    /\ updated' = PyNone
    /\ published' = [published EXCEPT ![r] = PyStr(endpoint')]
    /\ UNCHANGED provider_relations
    /\ UNCHANGED <<requirer_vars, charm_vars, tester_vars, elsewhere_vars>>
    /\ ports_before' = opened_ports
    /\ opened_ports' = SetPorts(opened_ports)

\* relation-broken on relation r of push-endpoint, after which it is gone
CharmRelationRemoved(r) ==
    /\ r \in provider_relations
    /\ endpoint' = Endpoint(TlsReady(can_connect, files))
    /\ provider_relations' = provider_relations \ {r}
    /\ provider_data' = [provider_data EXCEPT ![r] = EmptyBag]
    /\ hook' = [op |-> "relation_removed", rel |-> r]
    /\ updated' = PyNone
    /\ published' = [published EXCEPT ![r] = PyNone]
    /\ UNCHANGED <<requirer_vars, charm_vars, tester_vars, elsewhere_vars>>
    /\ ports_before' = opened_ports
    /\ opened_ports' = SetPorts(opened_ports)

\* cert_changed of the certificate handler, which holds the items handler:
\* _on_server_cert_changed
ServerCertChanged(handler) ==
    /\ cert_handler' = handler
    /\ ConfigureIn(can_connect, UpdateCerts(can_connect, files, handler))
    /\ endpoint' = Endpoint(TlsReady(can_connect, files'))
    /\ provider_data' = PublishAll(provider_data, provider_relations, endpoint')
    /\ hook' = [op |-> "cert_changed", rel |-> 0]
    /\ updated' = PyStr(endpoint')
    /\ published' = [r \in ProviderRelIds |->
                        IF r \in provider_relations THEN PyStr(endpoint') ELSE published[r]]
    /\ run' = NoRun
    /\ UNCHANGED <<can_connect, provider_relations>>
    /\ UNCHANGED <<requirer_vars, tester_vars, elsewhere_vars>>
    /\ ports_before' = opened_ports
    /\ opened_ports' = SetPorts(opened_ports)

\* Pebble of the workload container stops answering.  Either the container
\* is replaced by a new one of an image whose binary prints out, which has
\* none of the files, no layer and no running service, or it is kept as it is.
ContainerRestart(kept, out) ==
    /\ can_connect
    /\ kept => out = binary_output
    /\ can_connect' = FALSE
    /\ files' = (IF kept THEN files ELSE {})
    /\ plan' = (IF kept THEN plan ELSE NoPlan)
    /\ service_running' = (kept /\ service_running)
    /\ binary_output' = out
    /\ restarted' = FALSE
    /\ run' = (IF kept THEN run ELSE NoRun)
    /\ hook' = [op |-> "container_restart", rel |-> 0]
    /\ UNCHANGED <<endpoint, provider_relations, provider_data, updated, published>>
    /\ UNCHANGED <<cert_handler, unit_status, workload_version>>
    /\ UNCHANGED <<requirer_vars, tester_vars, elsewhere_vars, unit_vars>>

\* a path of the workload container disappears
FileRemoved(path) ==
    /\ path \in files
    /\ files' = files \ {path}
    /\ restarted' = FALSE
    /\ hook' = [op |-> "file_removed", rel |-> 0]
    /\ UNCHANGED <<endpoint, provider_relations, provider_data, updated, published>>
    /\ UNCHANGED <<can_connect, cert_handler, binary_output, plan, service_running,
                   unit_status, workload_version, run>>
    /\ UNCHANGED <<requirer_vars, tester_vars, elsewhere_vars, unit_vars>>

\* pushgateway-pebble-ready: _on_pebble_ready
PebbleReady ==
    /\ ~can_connect
    /\ can_connect' = TRUE
    /\ ConfigureIn(TRUE, files)
    /\ run' = RunAfter(run, TlsReady(TRUE, files), restarted')
    /\ endpoint' = Endpoint(TlsReady(TRUE, files))
    /\ hook' = [op |-> "pebble_ready", rel |-> 0]
    /\ updated' = PyNone
    /\ UNCHANGED <<provider_relations, provider_data, published>>
    /\ UNCHANGED <<cert_handler, requirer_vars, tester_vars, elsewhere_vars>>
    /\ ports_before' = opened_ports
    /\ opened_ports' = SetPorts(opened_ports)

\* config-changed, upgrade-charm, update-status: _configure
Configure ==
    /\ ConfigureIn(can_connect, files)
    /\ run' = RunAfter(run, TlsReady(can_connect, files), restarted')
    /\ endpoint' = Endpoint(TlsReady(can_connect, files))
    /\ hook' = [op |-> "configure", rel |-> 0]
    /\ updated' = PyNone
    /\ UNCHANGED <<provider_relations, provider_data, published>>
    /\ UNCHANGED <<can_connect, cert_handler, requirer_vars, tester_vars, elsewhere_vars>>
    /\ ports_before' = opened_ports
    /\ opened_ports' = SetPorts(opened_ports)

\* stop: _on_stop
Stop ==
    /\ workload_version' = PyStr(<<>>)
    /\ endpoint' = Endpoint(TlsReady(can_connect, files))
    /\ restarted' = FALSE
    /\ hook' = [op |-> "stop", rel |-> 0]
    /\ updated' = PyNone
    /\ UNCHANGED <<provider_relations, provider_data, published>>
    /\ UNCHANGED <<can_connect, files, cert_handler, binary_output, plan, service_running,
                   unit_status, run>>
    /\ UNCHANGED <<requirer_vars, tester_vars, elsewhere_vars>>
    /\ ports_before' = opened_ports
    /\ opened_ports' = SetPorts(opened_ports)

(***************************************************************************)
(* TestingcharmCharm, the application at the other end of one relation of  *)
(* push-endpoint.                                                          *)
(***************************************************************************)
\* the relation of push-endpoint whose remote application is the testing charm
TesterRelation == 1
\* "hostname", "port", "http://"
TxtHostname == <<104, 111, 115, 116, 110, 97, 109, 101>>
TxtPort == <<112, 111, 114, 116>>
TxtHttpSlashes == <<104, 116, 116, 112, 58, 47, 47>>
\* the parameters of the send-metric action: "some_testing_metric", "3.14"
TesterMetricName == <<115, 111, 109, 101, 95, 116, 101, 115, 116, 105, 110, 103, 95, 109, 101, 116, 114, 105, 99>>
TesterMetricValue == <<51, 46, 49, 52>>

\* "http://{hostname}:{port}/".format_map(info): [exc, v]
FormatPort(hostname, port) ==
    IF port.exc # "" THEN Raise(port.exc)
    ELSE Return(PyStr(TxtHttpSlashes \o Format(hostname) \o <<58>> \o Format(port.v) \o <<47>>))

FormatHostname(info, hostname) ==
    IF hostname.exc # "" THEN Raise(hostname.exc)
    ELSE FormatPort(hostname.v, GetItem(info, TxtPort))

FormatMap(info) == FormatHostname(info, GetItem(info, TxtHostname))

\* info = json.loads(raw), then the format_map
PushRelationLoaded(loaded) ==
    IF loaded.exc # "" THEN Raise(loaded.exc) ELSE FormatMap(loaded.v)

\* _on_push_relation for the value raw of push-endpoint: [exc, v], v being
\* what is assigned to _stored.pushgateway_url, None when nothing is
on_push_relation(raw) ==
    IF raw = PyNone THEN Return(PyNone) ELSE PushRelationLoaded(json_loads(raw.s))

\* the assignment to _stored.pushgateway_url, when the handler got that far
StoredAfter(stored, result) ==
    IF result.exc = "" /\ result.v # PyNone THEN result.v ELSE stored

RECURSIVE Lstrip(_)
Lstrip(s) == IF s # <<>> /\ Head(s) \in {32, 9, 10, 11, 12, 13} THEN Lstrip(Tail(s)) ELSE s
RECURSIVE Rstrip(_)
Rstrip(s) == IF s # <<>> /\ s[Len(s)] \in {32, 9, 10, 11, 12, 13}
             THEN Rstrip(SubSeq(s, 1, Len(s) - 1)) ELSE s
\* str.strip() for ASCII white space
Strip(s) == Rstrip(Lstrip(s))

\* float(text) for text that is a JSON number; ValueError otherwise
FloatOfLoaded(loaded) ==
    IF loaded.exc # "" THEN Raise("ValueError")
    ELSE IF loaded.v.ty = "float" THEN Return(loaded.v)
    ELSE IF loaded.v.ty = "int" THEN Return(PyFloat(loaded.v.n < 0,
                                               IF loaded.v.n < 0 THEN 0 - loaded.v.n ELSE loaded.v.n, 0))
    ELSE Raise("ValueError")

float_of(text) == FloatOfLoaded(json_loads(text))

\* event.fail(message)
TesterFail(message) ==
    [exc |-> "", failed |-> message, results |-> <<>>, requests |-> <<>>]

\* resp = requests.post(post_url, data=payload_bytes), then event.set_results
TesterPost(req, remote) ==
    IF remote.kind = "transport"
    THEN [exc |-> "ConnectionError", failed |-> "", results |-> <<>>, requests |-> <<req>>]
    ELSE [exc |-> "", failed |-> "",
          results |-> [k \in {"status-code", "content"} |->
                          IF k = "status-code" THEN Format(PyInt(remote.code)) ELSE <<>>],
          requests |-> <<req>>]

SendMetricParsed(stored, name, value, remote) ==
    IF value.exc # "" THEN TesterFail("The metric value must be a float.")
    ELSE IF ~isascii(name) THEN TesterFail("The metric name must be ASCII.")
    ELSE TesterPost([url |-> stored.s \o TxtMetricsJob \o JobTest.s,
                     data |-> EncodeAscii(name \o <<32>> \o Format(value.v) \o <<10>>)],
                    remote)

SendMetricNamed(stored, name, value, remote) ==
    IF 32 \in {name[i] : i \in 1..Len(name)}
    THEN TesterFail("The metric name cannot contain spaces.")
    ELSE SendMetricParsed(stored, name, float_of(value), remote)

\* _on_send_metric: [exc, failed, results, requests]
on_send_metric(stored, name, value, remote) ==
    IF stored = PyNone
    THEN TesterFail("Testing charm not properly related to the Prometheus Pushgateway.")
    ELSE SendMetricNamed(stored, Strip(name), value, remote)

\* pushgateway-relation-created or -changed on the testing charm; the
\* provider's databag is empty until the provider's hook has run
TesterPushRelation ==
    /\ tester' = [op |-> "push_relation",
                  raw |-> BagGet(provider_data[TesterRelation], RELATION_KEY),
                  result |-> on_push_relation(BagGet(provider_data[TesterRelation],
                                                     RELATION_KEY)),
                  handled |-> RELATION_KEY \in DOMAIN provider_data[TesterRelation]]
    /\ stored_pushgateway_url' = StoredAfter(stored_pushgateway_url, tester'.result)
    /\ UNCHANGED <<requirer_vars, provider_vars, charm_vars, elsewhere_vars, unit_vars>>

\* the send-metric action of the testing charm
TesterSendMetric(remote) ==
    /\ tester' = [op |-> "send_metric",
                  raw |-> BagGet(provider_data[TesterRelation], RELATION_KEY),
                  result |-> on_send_metric(stored_pushgateway_url, TesterMetricName,
                                            TesterMetricValue, remote),
                  handled |-> tester.handled]
    /\ UNCHANGED stored_pushgateway_url
    /\ UNCHANGED <<requirer_vars, provider_vars, charm_vars, elsewhere_vars, unit_vars>>

\* the Pushgateway charm, related to the testing charm and to other
\* applications
CharmNext ==
    \/ \E r \in ProviderRelIds : CharmRelationCreated(r)
    \/ \E r \in ProviderRelIds : CharmRelationChanged(r)
    \/ \E r \in ProviderRelIds : CharmRelationRemoved(r)
    \/ \E handler \in {{}, CertHandlerFull} : ServerCertChanged(handler)
    \/ \E kept \in BOOLEAN : ContainerRestart(kept, binary_output)
    \/ PebbleReady
    \/ Configure
    \/ Stop
    \/ TesterPushRelation
    \/ \E remote \in Remotes : TesterSendMetric(remote)

CharmSpec == Init /\ [][CharmNext]_vars

\* the hooks of the charm that act on the workload container, with all that
\* the certificate handler can hold and the binary can print
WorkloadNext ==
    \/ \E handler \in CertHandlerStates : ServerCertChanged(handler)
    \/ \E kept \in BOOLEAN : \E out \in BinaryOutputs : ContainerRestart(kept, out)
    \/ \E path \in ContainerPaths : FileRemoved(path)
    \/ PebbleReady
    \/ Configure
    \/ Stop

WorkloadSpec == Init /\ [][WorkloadNext]_vars

\* between two hooks a port of the unit is opened or closed by somebody else
\* (the hook of another revision of the charm, an operator)
PortsChanged(p) ==
    /\ opened_ports' = (IF p \in opened_ports THEN opened_ports \ {p}
                        ELSE opened_ports \cup {p})
    /\ hook' = [op |-> "ports_changed", rel |-> 0]
    /\ UNCHANGED <<endpoint, updated, provider_relations, provider_data, published>>
    /\ UNCHANGED <<requirer_vars, charm_vars, tester_vars, elsewhere_vars, ports_before>>

\* the hooks of the charm on a unit whose ports others change too
PortsNext ==
    \/ \E p \in PlannedPorts \cup OtherPorts : PortsChanged(p)
    \/ \E r \in ProviderRelIds : CharmRelationCreated(r)
    \/ \E r \in ProviderRelIds : CharmRelationChanged(r)
    \/ \E r \in ProviderRelIds : CharmRelationRemoved(r)
    \/ \E handler \in {{}, CertHandlerFull} : ServerCertChanged(handler)
    \/ PebbleReady
    \/ Configure
    \/ Stop

PortsSpec == Init /\ [][PortsNext]_vars

\* cert_changed is delivered once, when the handler holds its certificate
CertChangedOnce ==
    /\ cert_handler = {}
    /\ ServerCertChanged(CertHandlerFull)

\* the hooks of a unit whose container comes up once and whose certificate
\* arrives once, in either order
EnablementNext ==
    \/ CertChangedOnce
    \/ PebbleReady
    \/ Configure
    \/ \E r \in ProviderRelIds : CharmRelationCreated(r)
    \/ \E r \in ProviderRelIds : CharmRelationChanged(r)
    \/ \E r \in ProviderRelIds : CharmRelationRemoved(r)

\* Juju runs every hook that is pending
EnablementSpec ==
    Init /\ [][EnablementNext]_vars /\ WF_vars(CertChangedOnce) /\ WF_vars(PebbleReady)

(***************************************************************************)
(* Vocabulary of the properties.                                           *)
(***************************************************************************)
MsgNotReady == "The service is not ready."
MsgBadName == "The name must be a non-empty ASCII string."
MsgBadValue == "The metric value must be an integer or float number."

PyTrue == PyBool(TRUE)
PyFalse == PyBool(FALSE)

\* the one relation of the endpoint, when there is exactly one
TheRelation == CHOOSE r \in relations : TRUE
OneRelation == Cardinality(relations) = 1
HasKey(r) == RELATION_KEY \in DOMAIN relation_data[r]
RawOf(r) == relation_data[r][RELATION_KEY]

\* raw is JSON text of an object with a url member
HasUrlField(raw) ==
    LET loaded == json_loads(raw) IN
    /\ loaded.exc = ""
    /\ loaded.v.ty = "dict"
    /\ \E i \in 1..Len(loaded.v.items) : loaded.v.items[i].k = TxtUrl

\* the requirer has nothing to send to: no relation, no data, or data that
\* is not JSON or has no url
NotReadyState ==
    \/ relations = {}
    \/ OneRelation /\ ~HasKey(TheRelation)
    \/ OneRelation /\ HasKey(TheRelation) /\ ~HasUrlField(RawOf(TheRelation))

\* is_ready() returns True
Ready == is_ready = Return(PyTrue)

SendMetricCalled == call.op = "send_metric"
IgnoreErrorOn == call.ignore_error = PyTrue
\* the error send_metric raised, with no call of urlopen
Failed(exc, msg) ==
    call.result = [exc |-> exc, msg |-> msg, requests |-> <<>>]

\* the claim's bad names: not a string, empty, or with a non-ASCII code point
BadName(name) ==
    \/ name.ty # "str"
    \/ name.ty = "str" /\ (name.s = <<>> \/ \E i \in 1..Len(name.s) : name.s[i] > 127)
\* the claim's bad values: text and complex numbers
BadValue(value) == value.ty \in {"str", "complex"}
GoodValue(value) == value.ty \in {"int", "float", "bool"}

\* the POST reached the remote end and was answered with an error status
AnsweredWithError ==
    /\ SendMetricCalled
    /\ Len(call.result.requests) >= 1
    /\ StartsWith(call.result.requests[1].url, TxtHttp)
       \/ StartsWith(call.result.requests[1].url, TxtHttps)
    /\ call.remote.kind = "response"
    /\ call.remote.code \notin 200..299

\* the POST failed below HTTP
TransportFailed ==
    /\ SendMetricCalled
    /\ Len(call.result.requests) >= 1
    /\ StartsWith(call.result.requests[1].url, TxtHttp)
       \/ StartsWith(call.result.requests[1].url, TxtHttps)
    /\ call.remote.kind = "transport"

(***************************************************************************)
(* Properties.                                                             *)
(***************************************************************************)

\* C1: is_ready() is False before any relation exists, False while the
\* relation exists without a push-endpoint key, True only while a relation
\* exists whose remote data holds a JSON object with a url under
\* push-endpoint, and False again once the relation is removed.
C1_IsReadyFollowsRelation ==
    call.op = "is_ready" =>
        /\ relations = {} => call.result = Return(PyFalse)
        /\ (OneRelation /\ ~HasKey(TheRelation)) => call.result = Return(PyFalse)
        /\ call.result = Return(PyTrue) =>
              \E r \in relations : HasKey(r) /\ HasUrlField(RawOf(r))
        /\ (OneRelation /\ HasKey(TheRelation) /\ RawOf(TheRelation) \in {RawUrlHttp, RawUrlHttps})
              => call.result = Return(PyTrue)

\* is_ready() answered False after the relation of a ready requirer was removed
C1_Witness ==
    /\ call.op = "is_ready"
    /\ relations = {}
    /\ was_ready
    /\ call.result = Return(PyFalse)

\* C2 (as claimed): whatever is stored under push-endpoint that is not JSON,
\* or is JSON without a url field, is_ready() returns False and raises nothing.
C2_BadPayloadNotReady ==
    (call.op = "is_ready" /\ OneRelation /\ HasKey(TheRelation)
        /\ ~HasUrlField(RawOf(TheRelation)))
    => call.result = Return(PyFalse)

\* C3 (as claimed): send_metric on a requirer that is not ready raises the
\* not-ready error and never calls urlopen.
C3_NotReadyRejected ==
    (SendMetricCalled /\ NotReadyState) => Failed("ValueError", MsgNotReady)

\* C4: on a ready requirer a name that is not a string, is empty or is not
\* ASCII is refused with the invalid-name error, and urlopen is not called.
C4_BadNameRejected ==
    (SendMetricCalled /\ Ready /\ BadName(call.name))
    => Failed("ValueError", MsgBadName)

\* a non-ASCII name was refused on a ready requirer
C4_Witness ==
    /\ SendMetricCalled
    /\ Ready
    /\ call.name = NameNonAscii
    /\ Failed("ValueError", MsgBadName)

\* C5: on a ready requirer with a valid name, a value that is text or a
\* complex number is refused with the invalid-value error, and urlopen is
\* not called.
C5_BadValueRejected ==
    (SendMetricCalled /\ Ready /\ ~BadName(call.name) /\ BadValue(call.value))
    => Failed("ValueError", MsgBadValue)

\* a complex value was refused on a ready requirer
C5_Witness ==
    /\ SendMetricCalled
    /\ Ready
    /\ call.name = NameOk
    /\ call.value = ValueComplex
    /\ Failed("ValueError", MsgBadValue)

\* "testmetric 3.14\n" and "testmetric 314\n" as bytes
BodyFloat == <<116, 101, 115, 116, 109, 101, 116, 114, 105, 99, 32, 51, 46, 49, 52, 10>>
BodyInt == <<116, 101, 115, 116, 109, 101, 116, 114, 105, 99, 32, 51, 49, 52, 10>>
\* "http://h:9876/metrics/job/default"
PostUrlDefault == <<104, 116, 116, 112, 58, 47, 47, 104, 58, 57, 56, 55, 54, 47, 109, 101, 116, 114, 105, 99, 115, 47, 106, 111, 98, 47, 100, 101, 102, 97, 117, 108, 116>>

C7_HttpErrorRaisedUnlessIgnored ==
    AnsweredWithError =>
        IF IgnoreErrorOn THEN call.result.exc = "" ELSE call.result.exc = "HTTPError"

\* a 400 answer was swallowed under ignore_error=True
C7_Witness ==
    /\ AnsweredWithError
    /\ call.remote.code = 400
    /\ IgnoreErrorOn
    /\ call.result.exc = ""

\* C8 (as claimed): when the POST fails below HTTP, send_metric with
\* ignore_error=True returns normally, and raises the failure otherwise.
C8_TransportErrorIgnored ==
    TransportFailed =>
        IF IgnoreErrorOn THEN call.result.exc = "" ELSE call.result.exc # ""

\* C9 (as claimed): with ignore_error=True send_metric still raises the
\* not-ready error on a requirer that is not ready, and the invalid-name and
\* invalid-value errors on bad input.
C9_IgnoreErrorKeepsLocalErrors ==
    (SendMetricCalled /\ IgnoreErrorOn) =>
        /\ NotReadyState => Failed("ValueError", MsgNotReady)
        /\ (Ready /\ BadName(call.name)) => Failed("ValueError", MsgBadName)
        /\ (Ready /\ ~BadName(call.name) /\ BadValue(call.value))
              => Failed("ValueError", MsgBadValue)

\* C10: one send_metric makes at most one call of urlopen, whatever the
\* outcome and whatever ignore_error is.
C10_AtMostOnePost ==
    SendMetricCalled => Len(call.result.requests) <= 1

\* a failed POST under ignore_error=True was attempted once
C10_Witness ==
    /\ SendMetricCalled
    /\ IgnoreErrorOn
    /\ call.remote.kind # "response" \/ call.remote.code \notin 200..299
    /\ Len(call.result.requests) = 1

(***************************************************************************)
(* Vocabulary of the provider's properties.                                *)
(***************************************************************************)
\* the provider's databag of relation r holds a value under push-endpoint
Published(r) == RELATION_KEY \in DOMAIN provider_data[r]
PayloadOf(r) == provider_data[r][RELATION_KEY]
\* the last operation of the provider was the handler of a relation event
ProviderRelationHook == hook.op \in {"relation_created", "relation_changed"}
\* the Python object {"url": e}
UrlObject(e) == PyDict(<<[k |-> TxtUrl, v |-> PyStr(e)]>>)
\* text is JSON for the object {"url": e}
IsUrlPayload(text, e) == json_loads(text) = [exc |-> "", v |-> UrlObject(e)]
\* {"url": "http://testhost:9091/"}
PayloadCharmHttp == <<123, 34, 117, 114, 108, 34, 58, 32, 34, 104, 116, 116, 112, 58, 47, 47, 116, 101, 115, 116, 104, 111, 115, 116, 58, 57, 48, 57, 49, 47, 34, 125>>

\* C11: after the provider handled relation-created or relation-changed of
\* a relation, its application databag of that relation has the one key
\* push-endpoint, whose value is JSON for {"url": e}, e being the provider's
\* endpoint; in the charm e is http://<fqdn>:9091/ while TLS is not ready.
C11_RelationEventPublishes ==
    ProviderRelationHook =>
        /\ DOMAIN provider_data[hook.rel] = {RELATION_KEY}
        /\ IsUrlPayload(PayloadOf(hook.rel), endpoint)
        /\ ~TlsReady(can_connect, files) => PayloadOf(hook.rel) = PayloadCharmHttp

\* relation-changed was handled after TLS stopped being ready: the databag
\* went from the https URL, which another relation still holds, to the http one
C11_Witness ==
    /\ hook = [op |-> "relation_changed", rel |-> 1]
    /\ ~TlsReady(can_connect, files)
    /\ PayloadOf(1) = PayloadCharmHttp
    /\ 2 \in provider_relations
    /\ IsUrlPayload(PayloadOf(2), Endpoint(TRUE))

\* C12: after update_endpoint(e) the provider's endpoint is e and every
\* established relation holds {"url": e} under push-endpoint; a relation
\* event the same instance handles later publishes e too.
C12_UpdateEndpointRepublishes ==
    /\ hook.op = "update_endpoint" =>
          /\ updated # PyNone
          /\ endpoint = updated.s
          /\ \A r \in provider_relations :
                Published(r) /\ IsUrlPayload(PayloadOf(r), updated.s)
    /\ (ProviderRelationHook /\ updated # PyNone) =>
          IsUrlPayload(PayloadOf(hook.rel), updated.s)

\* update_endpoint ran with two relations established and changed what both hold
C12_Witness ==
    /\ hook.op = "update_endpoint"
    /\ updated = PyStr(EndpointEscapes)
    /\ provider_relations = {1, 2}
    /\ \A r \in {1, 2} : IsUrlPayload(PayloadOf(r), EndpointEscapes)

C14_BothWireShapes ==
    (call.op = "is_ready" /\ OneRelation /\ HasKey(TheRelation)
        /\ RawOf(TheRelation) \in {RawHostPort, RawUrlHttp})
    => /\ call.result = Return(PyTrue)
       /\ pushgateway_url = Return(PyStr(UrlHttp))

\* "ok", "True"
TxtOk == "ok"
TxtPyTrue == <<84, 114, 117, 101>>

\* C15 (as claimed): once the testing charm is related to the Pushgateway
\* charm and the provider has published, the testing charm's relation
\* handler stores a push URL and raises nothing, and its send-metric action
\* then posts the metric and reports ok = True.
C15_TesterStoresAndPosts ==
    /\ (tester.op = "push_relation" /\ tester.handled) =>
          /\ tester.result.exc = ""
          /\ stored_pushgateway_url # PyNone
    /\ (tester.op = "send_metric" /\ tester.handled /\ Published(TesterRelation)) =>
          /\ tester.result.exc = ""
          /\ tester.result.failed = ""
          /\ Len(tester.result.requests) = 1
          /\ TxtOk \in DOMAIN tester.result.results
          /\ tester.result.results[TxtOk] = TxtPyTrue

\* C16 (as claimed): at the end of every hook of the Pushgateway charm, all
\* relations of push-endpoint that hold a published value hold the same URL.
C16_SameUrlOnAllRelations ==
    \A r1, r2 \in provider_relations :
        (Published(r1) /\ Published(r2)) => PayloadOf(r1) = PayloadOf(r2)

\* the step wrote the databag of relation r: the handler of an event of r,
\* or update_endpoint while r is established
Wrote(r) ==
    \/ hook'.op \in {"relation_created", "relation_changed"} /\ hook'.rel = r
    \/ hook'.op = "update_endpoint" /\ r \in provider_relations'

\* the databag of every relation is exactly the payload of the last write
LastWriteWins ==
    \A r \in ProviderRelIds :
        IF published[r] = PyNone THEN provider_data[r] = EmptyBag
        ELSE /\ DOMAIN provider_data[r] = {RELATION_KEY}
             /\ IsUrlPayload(PayloadOf(r), published[r].s)

\* a write with the endpoint of the write before it changes nothing
SameWriteChangesNothing ==
    \A r \in ProviderRelIds :
        (Wrote(r) /\ published'[r] = published[r]) => provider_data'[r] = provider_data[r]

\* C17: publication is idempotent and the last write wins: a relation event
\* or update_endpoint that writes the endpoint the databag already holds
\* leaves the databag as it was, and after any sequence of them every
\* databag holds the whole payload of the last write to it and no more.
C17_IdempotentLastWriteWins == []LastWriteWins /\ [][SameWriteChangesNothing]_vars

\* relation 1 was written again with a new endpoint while relation 2 keeps
\* the payload of its own last write
C17_Witness ==
    /\ hook = [op |-> "relation_changed", rel |-> 1]
    /\ published[1] = PyStr(EndpointUnicode)
    /\ published[2] = PyStr(EndpointEscapes)
    /\ IsUrlPayload(PayloadOf(1), EndpointUnicode)
    /\ IsUrlPayload(PayloadOf(2), EndpointEscapes)

\* what the relation data as it is now determines, by itself, as the URL:
\* nothing without a relation or a value, else what the value decodes to
UrlOfCurrentData ==
    IF relations = {} THEN Return(PyNone)
    ELSE IF Cardinality(relations) > 1 THEN Raise("TooManyRelatedAppsError")
    ELSE UrlOfRawData(BagGet(relation_data[TheRelation], RELATION_KEY))

ValidEndpoint(s) ==
    \E p \in {TxtSchemeHttp \o TxtSchemeSep, TxtSchemeHttps \o TxtSchemeSep} :
        /\ StartsWith(s, p)
        /\ s[Len(s)] = 47
        /\ \E c \in (Len(p) + 2)..(Len(s) - 2) :
              /\ s[c] = 58
              /\ \A k \in (Len(p) + 1)..(c - 1) : s[k] \notin {47, 58}
              /\ \A k \in (c + 1)..(Len(s) - 1) : IsDigit(s[k])
              /\ Len(s) - 1 - c <= 5
              /\ DigitsVal(s, c + 1, Len(s)) \in 1..65535

\* C19 (as claimed): whenever is_ready() is true the requirer's endpoint is
\* text of the form <scheme>://<host>:<port>/ with scheme http or https and
\* a port in 1..65535; a url that is a number, an object, empty or without
\* a scheme never makes the requirer ready.
C19_ReadyMeansValidEndpoint ==
    (call.op = "is_ready" /\ call.result = Return(PyTrue)) =>
        /\ pushgateway_url.exc = ""
        /\ pushgateway_url.v.ty = "str"
        /\ ValidEndpoint(pushgateway_url.v.s)

\* the contexts of a call that verifies and of one that does not
ContextVerified == [check_hostname |-> TRUE, verify_mode |-> "CERT_REQUIRED"]
ContextUnverified == [check_hostname |-> FALSE, verify_mode |-> "CERT_NONE"]

\* C20: a POST is made without certificate and hostname verification
\* exactly when the send_metric call that makes it was given
\* verify_ssl=False, whatever the calls before it were given.
C20_VerifyPerCall ==
    SendMetricCalled =>
        \A i \in 1..Len(call.result.requests) :
            IF call.verify_ssl = PyFalse
            THEN call.result.requests[i].context = ContextUnverified
            ELSE call.result.requests[i].context = ContextVerified

\* a call that verifies posted after an earlier call had posted without
\* verification
C20_Witness ==
    /\ SendMetricCalled
    /\ unverified_posted
    /\ call.verify_ssl = Omitted
    /\ Len(call.result.requests) = 1
    /\ call.result.requests[1].context = ContextVerified

\* C21 (as claimed): on a ready requirer with a valid name, a value that is
\* NaN or an infinity is refused with the invalid-value error, and urlopen
\* is not called.
C21_NonFiniteRejected ==
    (SendMetricCalled /\ Ready /\ ~BadName(call.name)
        /\ call.value.ty = "float" /\ call.value.special # "")
    => Failed("ValueError", MsgBadValue)

\* C25 (as claimed): send_metric checks readiness, then the name, then the
\* value: with several violations at once it raises the error of the first
\* of them in this order, and in each case urlopen is not called.
C25_ChecksInOrder ==
    SendMetricCalled =>
        /\ NotReadyState => Failed("ValueError", MsgNotReady)
        /\ (Ready /\ BadName(call.name)) => Failed("ValueError", MsgBadName)
        /\ (Ready /\ ~BadName(call.name) /\ BadValue(call.value))
              => Failed("ValueError", MsgBadValue)

\* u is <scheme>://<host>:<port>/metrics/job/<job>
WellFormedSubmission(u, job) ==
    \E n \in 1..Len(u) :
        /\ ValidEndpoint(SubSeq(u, 1, n))
        /\ SubSeq(u, n + 1, Len(u)) = TxtMetricsJob \o job

\* C27 (as claimed): for the endpoints the repository's providers publish,
\* the constructor's default and the charm's URL, the submission URL the
\* requirer builds from what it reads is
\* <scheme>://<host>:<port>/metrics/job/<job_name>.
C27_SubmissionUrlWellFormed ==
    (call.op = "observe" /\ published[call.rel] \in {PyStr(DefaultEndpoint), PyStr(EndpointCharm)})
    => /\ pushgateway_url.exc = ""
       /\ pushgateway_url.v.ty = "str"
       /\ WellFormedSubmission(PostUrl(pushgateway_url.v, PyStr(TxtDefault)), TxtDefault)

(***************************************************************************)
(* The charm and its workload.                                             *)
(***************************************************************************)
\* the last operation was a hook of the charm, which has ended
CharmHookEnded ==
    hook.op \in {"relation_created", "relation_changed", "relation_removed",
                 "cert_changed", "pebble_ready", "configure", "stop"}
\* '{"url": "https://', '{"url": "http://'
TxtPayloadHttps == <<123, 34, 117, 114, 108, 34, 58, 32, 34, 104, 116, 116, 112, 115, 58, 47, 47>>
TxtPayloadHttp == <<123, 34, 117, 114, 108, 34, 58, 32, 34, 104, 116, 116, 112, 58, 47, 47>>

\* C24 (as claimed): at the end of every hook of the charm, the URL that
\* each relation of push-endpoint holds has the scheme https if the workload
\* is TLS-ready, and the scheme http if it is not.
C24_SchemeFollowsTls ==
    CharmHookEnded =>
        \A r \in provider_relations :
            Published(r) =>
                StartsWith(PayloadOf(r),
                           IF TlsReady(can_connect, files)
                           THEN TxtPayloadHttps ELSE TxtPayloadHttp)

\* the last operation was a hook that ran _configure
ConfigureHookEnded == hook.op \in {"pebble_ready", "configure", "cert_changed"}
\* the step is a hook that runs _configure
ConfigureHookStep == hook'.op \in {"pebble_ready", "configure", "cert_changed"}
\* server.cert, server.key and cos-ca.crt of /etc/pushgateway exist
TlsFilesIn(fs) ==
    /\ <<47, 101, 116, 99, 47, 112, 117, 115, 104, 103, 97, 116, 101, 119, 97, 121, 47, 115, 101, 114, 118, 101, 114, 46, 99, 101, 114, 116>> \in fs
    /\ <<47, 101, 116, 99, 47, 112, 117, 115, 104, 103, 97, 116, 101, 119, 97, 121, 47, 115, 101, 114, 118, 101, 114, 46, 107, 101, 121>> \in fs
    /\ <<47, 101, 116, 99, 47, 112, 117, 115, 104, 103, 97, 116, 101, 119, 97, 121, 47, 99, 111, 115, 45, 99, 97, 46, 99, 114, 116>> \in fs
\* "/bin/pushgateway --persistence.file=/data/metrics"
TxtPlainCommand == <<47, 98, 105, 110, 47, 112, 117, 115, 104, 103, 97, 116, 101, 119, 97, 121, 32, 45, 45, 112, 101, 114, 115, 105, 115, 116, 101, 110, 99, 101, 46, 102, 105, 108, 101, 61, 47, 100, 97, 116, 97, 47, 109, 101, 116, 114, 105, 99, 115>>
\* "--web.config.file=/etc/pushgateway/web-config.yml"
TxtWebConfigArg == <<45, 45, 119, 101, 98, 46, 99, 111, 110, 102, 105, 103, 46, 102, 105, 108, 101, 61, 47, 101, 116, 99, 47, 112, 117, 115, 104, 103, 97, 116, 101, 119, 97, 121, 47, 119, 101, 98, 45, 99, 111, 110, 102, 105, 103, 46, 121, 109, 108>>
\* the pushgateway service with the command
ServiceWith(command) ==
    [name |-> "pushgateway", override |-> "replace", summary |-> "pushgateway process",
     command |-> command, startup |-> "enabled"]

\* after pebble-ready without the TLS files: the one service, running, Active
AfterPebbleReady ==
    (hook.op = "pebble_ready" /\ can_connect /\ ~TlsFilesIn(files))
    => /\ plan.services = {ServiceWith(TxtPlainCommand)}
       /\ service_running
       /\ unit_status.name = "active"

\* a hook that runs _configure while Pebble does not answer sets Waiting and
\* leaves the plan, the files and the workload version as they are
NotConnectableChangesNothing ==
    (ConfigureHookStep /\ ~can_connect')
    => /\ unit_status'.name = "waiting"
       /\ plan' = plan
       /\ files' = files
       /\ workload_version' = workload_version

\* C22: after pebble-ready with a container that answers and lacks the TLS
\* files, the plan has exactly the service pushgateway {override: replace,
\* summary: "pushgateway process", command: "/bin/pushgateway
\* --persistence.file=/data/metrics", startup: enabled}, the service runs and
\* the unit is Active; a hook that runs _configure while the container does
\* not answer sets Waiting and changes neither plan, files nor version.
C22_PebbleReadyConfigures == []AfterPebbleReady /\ [][NotConnectableChangesNothing]_vars

C22_Witness ==
    /\ hook.op = "pebble_ready"
    /\ can_connect
    /\ files = {}
    /\ plan.services = {ServiceWith(TxtPlainCommand)}
    /\ service_running
    /\ unit_status.name = "active"

\* the binary prints nothing from which a version can be read
VersionUndetermined(out) == out \in {OutNoise, OutNoSpace}

\* after a hook that ran _configure on a container that answers, the version
\* is the one the binary printed on stderr, or on stdout with stderr empty
VersionIsReported ==
    (ConfigureHookEnded /\ can_connect)
    => /\ binary_output = OutStderr => workload_version = PyStr(<<52, 50, 46, 52, 50, 46, 52, 50>>)
       /\ binary_output = OutStdout => workload_version = PyStr(<<49, 46, 54, 46, 48>>)
       /\ binary_output = OutBoth => workload_version = PyStr(<<49, 46, 53, 46, 49>>)

\* a hook that cannot determine the version leaves it, the stop hook empties it
VersionKeptOrEmptied ==
    /\ (ConfigureHookStep /\ (~can_connect' \/ VersionUndetermined(binary_output')))
       => workload_version' = workload_version
    /\ hook'.op = "stop" => workload_version' = PyStr(<<>>)

\* C23: after a hook that runs _configure on a container that answers and
\* whose binary prints "pushgateway, version V (...)" on stderr, or on stdout
\* with an empty stderr, the workload version is V; a hook that cannot
\* determine the version leaves it unchanged; after stop it is "".
C23_WorkloadVersion == []VersionIsReported /\ [][VersionKeptOrEmptied]_vars

C23_Witness ==
    /\ hook.op = "configure"
    /\ can_connect
    /\ binary_output = OutStdout
    /\ workload_version = PyStr(<<49, 46, 54, 46, 48>>)

\* sub occurs in text
Contains(text, sub) ==
    \E i \in 1..(Len(text) - Len(sub) + 1) : SubSeq(text, i, i + Len(sub) - 1) = sub
\* the commands of the services of the plan
PlanCommands == {s.command : s \in plan.services}
WebConfigExists == <<47, 101, 116, 99, 47, 112, 117, 115, 104, 103, 97, 116, 101, 119, 97, 121, 47, 119, 101, 98, 45, 99, 111, 110, 102, 105, 103, 46, 121, 109, 108>> \in files

\* C28: after a hook that ran _configure on a container that answers, if
\* the certificate, key and CA files exist then the command of the service
\* contains --web.config.file=/etc/pushgateway/web-config.yml and the
\* web-config file exists; if not, the command is the binary with
\* --persistence.file alone and the web-config file does not exist.
C28_WebConfigFollowsCerts ==
    (ConfigureHookEnded /\ can_connect)
    => /\ Cardinality(PlanCommands) = 1
       /\ IF TlsFilesIn(files)
          THEN WebConfigExists /\ \A c \in PlanCommands : Contains(c, TxtWebConfigArg)
          ELSE ~WebConfigExists /\ PlanCommands = {TxtPlainCommand}

C28_Witness ==
    /\ hook.op = "configure"
    /\ can_connect
    /\ TlsFilesIn(files)
    /\ WebConfigExists
    /\ \E c \in PlanCommands : Contains(c, TxtWebConfigArg)

\* "/bin/pushgateway --persistence.file=/data/metrics
\* --web.config.file=/etc/pushgateway/web-config.yml"
TxtTlsCommand == <<47, 98, 105, 110, 47, 112, 117, 115, 104, 103, 97, 116, 101, 119, 97, 121, 32, 45, 45, 112, 101, 114, 115, 105, 115, 116, 101, 110, 99, 101, 46, 102, 105, 108, 101, 61, 47, 100, 97, 116, 97, 47, 109, 101, 116, 114, 105, 99, 115, 32, 45, 45, 119, 101, 98, 46, 99, 111, 110, 102, 105, 103, 46, 102, 105, 108, 101, 61, 47, 101, 116, 99, 47, 112, 117, 115, 104, 103, 97, 116, 101, 119, 97, 121, 47, 119, 101, 98, 45, 99, 111, 110, 102, 105, 103, 46, 121, 109, 108>>
\* the services of the layer a hook builds when the container holds fs
NewServices(fs) ==
    {ServiceWith(IF TlsFilesIn(fs) THEN TxtTlsCommand ELSE TxtPlainCommand)}

\* a hook that runs _configure on a container that answers restarts the
\* service if and only if the plan has no services or other services than
\* the layer it builds; the certificate files are those the hook leaves
RestartsIffPlanDiffers ==
    (ConfigureHookStep /\ can_connect')
    => (restarted' <=> (plan.services = {} \/ plan.services # NewServices(files')))

\* the hooks that ran _configure since the container and its TLS readiness
\* last changed restarted the service once at most
OneRestartPerRun == run.open => run.restarts <= 1

CertMaterial ==
    {<<47, 101, 116, 99, 47, 112, 117, 115, 104, 103, 97, 116, 101, 119, 97, 121, 47, 115, 101, 114, 118, 101, 114, 46, 99, 101, 114, 116>>, <<47, 101, 116, 99, 47, 112, 117, 115, 104, 103, 97, 116, 101, 119, 97, 121, 47, 115, 101, 114, 118, 101, 114, 46, 107, 101, 121>>,
     <<47, 101, 116, 99, 47, 112, 117, 115, 104, 103, 97, 116, 101, 119, 97, 121, 47, 99, 111, 115, 45, 99, 97, 46, 99, 114, 116>>, <<47, 117, 115, 114, 47, 108, 111, 99, 97, 108, 47, 115, 104, 97, 114, 101, 47, 99, 97, 45, 99, 101, 114, 116, 105, 102, 105, 99, 97, 116, 101, 115, 47, 99, 111, 115, 45, 99, 97, 46, 99, 114, 116>>}
\* the handler is enabled and holds a certificate, a key and a CA
HandlerProvidesAll == cert_handler = {"enabled", "cert", "key", "ca"}

\* C30: after cert_changed on a container that answers, the server
\* certificate, the server key, the CA certificate and its trusted copy all
\* exist if the handler is enabled and holds certificate, key and CA, and
\* none of them exists otherwise; TLS readiness equals that availability.
C30_CertsAllOrNothing ==
    (hook.op = "cert_changed" /\ can_connect)
    => /\ IF HandlerProvidesAll THEN CertMaterial \subseteq files
          ELSE CertMaterial \cap files = {}
       /\ TlsReady(can_connect, files) <=> HandlerProvidesAll

C30_Witness ==
    /\ hook.op = "cert_changed"
    /\ can_connect
    /\ HandlerProvidesAll
    /\ CertMaterial \subseteq files
    /\ TlsReady(can_connect, files)

(***************************************************************************)
(* The provider and the data it does not own.                              *)
(***************************************************************************)
\* the step leaves every key of the databag of relation q other than
\* push-endpoint as it is
OtherKeysKept(q) ==
    /\ DOMAIN provider_data'[q] \ {RELATION_KEY} = DOMAIN provider_data[q] \ {RELATION_KEY}
    /\ \A k \in DOMAIN provider_data[q] \ {RELATION_KEY} :
           provider_data'[q][k] = provider_data[q][k]

\* the handler of a relation event writes push-endpoint of that relation
RelationEventFrame ==
    hook'.op \in {"relation_created", "relation_changed"}
    => /\ RELATION_KEY \in DOMAIN provider_data'[hook'.rel]
       /\ OtherKeysKept(hook'.rel)
       /\ \A q \in ProviderRelIds \ {hook'.rel} : provider_data'[q] = provider_data[q]
       /\ other_data' = other_data

\* update_endpoint writes push-endpoint of every relation of its name
UpdateEndpointFrame ==
    hook'.op = "update_endpoint"
    => /\ \A q \in provider_relations :
              RELATION_KEY \in DOMAIN provider_data'[q] /\ OtherKeysKept(q)
       /\ \A q \in ProviderRelIds \ provider_relations : provider_data'[q] = provider_data[q]
       /\ other_data' = other_data

\* C26: the handler of a relation event changes the key push-endpoint of the
\* provider's application databag of the event's relation and nothing else,
\* update_endpoint changes that key in every relation of the provider's
\* relation name and nothing else: other keys, the unit databag, the remote
\* databag and the relations of other names stay as they are.
C26_WritesOnlyPushEndpoint == [][RelationEventFrame /\ UpdateEndpointFrame]_vars

C26_Witness ==
    /\ hook.op = "update_endpoint"
    /\ \A q \in ProviderRelIds :
           /\ q \in provider_relations
           /\ DOMAIN provider_data[q] = {RELATION_KEY, <<111, 116, 104, 101, 114>>}
           /\ IsUrlPayload(PayloadOf(q), EndpointCharm)
    /\ other_data["unit"] # EmptyBag
    /\ other_data["remote"] # EmptyBag
    /\ other_data["other_relation"] # EmptyBag

(***************************************************************************)
(* The requirer's endpoint with several relations.                         *)
(***************************************************************************)
\* C32 (as claimed): is_ready() returns a boolean and raises nothing,
\* whatever relations are established on the requirer's endpoint, several
\* at the same time included.
C32_IsReadyAlwaysAnswers ==
    call.op = "is_ready"
    => /\ call.result.exc = ""
       /\ call.result.v \in {PyBool(TRUE), PyBool(FALSE)}

(***************************************************************************)
(* The ports of the unit.                                                  *)
(***************************************************************************)
\* C33: after a hook of the charm, in which the charm object was constructed,
\* the open ports of the unit are exactly tcp/9091, whatever ports were open
\* when the hook began.
C33_OnlyListenPortOpen ==
    CharmHookEnded => opened_ports = {[protocol |-> "tcp", port |-> 9091]}

C33_Witness ==
    /\ CharmHookEnded
    /\ ports_before = {[protocol |-> "tcp", port |-> 8080], [protocol |-> "udp", port |-> 9091]}
    /\ opened_ports = {[protocol |-> "tcp", port |-> 9091]}

(***************************************************************************)
(* TLS enablement.                                                         *)
(***************************************************************************)
\* the certificate files are in the container, the service runs with the
\* web-config file, every published URL is https
TlsEnabled ==
    /\ CertMaterial \subseteq files
    /\ WebConfigExists
    /\ service_running
    /\ plan.services = {ServiceWith(TxtTlsCommand)}
    /\ \A r \in provider_relations :
           Published(r) => StartsWith(PayloadOf(r), TxtPayloadHttps)

\* C31 (as claimed): when the certificate is available and the container
\* comes up, cert_changed and pebble-ready being delivered once each in
\* either order and every pending hook being run, the unit eventually has
\* the certificate files in the container, the workload running with the
\* web-config file and an https URL published.
C31_TlsEventuallyEnabled == <>TlsEnabled

====
